---- MODULE Spec2Model ----
(***************************************************************************)
(* The ApplySet apply/prune engine of kro (package applyset): one owner    *)
(* ("parent"), a remote object store, and a sequence of reconciliation    *)
(* passes.  Every remote call of a pass is one step of the model, so that  *)
(* the order of the calls and an interruption between two calls are       *)
(* visible.                                                                *)
(***************************************************************************)
EXTENDS Naturals, Sequences, FiniteSets, TLC

\* ------------------------------------------------------------------ bounds

\* Number of engines constructed (passes) in one behaviour.
MaxPasses == 2
\* Number of Add calls made on one engine.
MaxAdds == 2
\* Number of failures (remote errors, callback errors, crashes) in one behaviour.
MaxFaults == 1
\* Number of Add calls made on one engine when only the Add phase is explored.
MaxWideAdds == 3
\* Number of Add calls made on the engine of the second owner.
MaxPeerAdds == 1
\* Number of engines constructed for the second owner.
MaxPeerPasses == 2
\* Number of NewApplySet calls whose results are compared.
MaxEngines == 2
\* Number of Add calls before the apply of labelled objects.
MaxLabelAdds == 2

\* ----------------------------------------------------------------- strings

(* A Go string is a sequence of symbols: a symbol is the comma or a        *)
(* maximal comma-free chunk (an atom).  The empty string is << >>.         *)
Comma == ","

EmptyString == << >>

\* A one-element string holding the atom t; the empty token gives "".
Str(t) == IF t = "" THEN << >> ELSE <<t>>

\* The token a comma-free segment stands for.
Token(seg) == IF seg = << >> THEN "" ELSE seg[1]

\* strings.Join(list, ",")
RECURSIVE Join(_)
Join(list) ==
    IF list = << >> THEN EmptyString
    ELSE IF Len(list) = 1 THEN Str(list[1])
    ELSE Str(list[1]) \o <<Comma>> \o Join(Tail(list))

\* strings.Split(s, ","): always at least one token; Split("") is [""].
RECURSIVE Split(_)
Split(s) ==
    IF \A i \in 1..Len(s) : s[i] # Comma THEN <<Token(s)>>
    ELSE LET i == CHOOSE k \in 1..Len(s) :
                      s[k] = Comma /\ \A m \in 1..(k-1) : s[m] # Comma
         IN <<Token(SubSeq(s, 1, i-1))>> \o Split(SubSeq(s, i+1, Len(s)))

\* The byte-wise lexicographic order of the tokens the model uses.
LexOrder == <<"", "ConfigMap", "Deployment.apps", "Namespace", "ns1", "ns2">>

LexRank(t) == CHOOSE i \in 1..Len(LexOrder) : LexOrder[i] = t

\* set.UnsortedList() followed by sort.Strings: the elements in ascending order.
RECURSIVE SortStrings(_)
SortStrings(S) ==
    IF S = {} THEN << >>
    ELSE LET m == CHOOSE x \in S : \A y \in S : LexRank(x) <= LexRank(y)
         IN <<m>> \o SortStrings(S \ {m})

Range(f) == {f[x] : x \in DOMAIN f}

\* ------------------------------------------------------------- Go maps

\* A map[string]string is a function on its keys; a nil map is the empty one.
NilMap == [x \in {} |-> << >>]

\* m[k]: the zero value "" for a missing key.
MapGet(m, k) == IF k \in DOMAIN m THEN m[k] ELSE EmptyString

\* m[k] = v
MapSet(m, k, v) == [x \in (DOMAIN m) \cup {k} |-> IF x = k THEN v ELSE m[x]]

\* for k, v := range src { dst[k] = v }
MapMerge(dst, src) ==
    [x \in (DOMAIN dst) \cup (DOMAIN src) |-> IF x \in DOMAIN src THEN src[x] ELSE dst[x]]

\* ------------------------------------------------------ well-known keys

ApplySetParentIDLabel == "applyset.kubernetes.io/id"
ApplysetPartOfLabel == "applyset.kubernetes.io/part-of"
ApplySetToolingAnnotation == "applyset.kubernetes.io/tooling"
ApplySetGKsAnnotation == "applyset.kubernetes.io/contains-group-kinds"
ApplySetAdditionalNamespacesAnnotation == "applyset.kubernetes.io/additional-namespaces"
ApplySetIDPartDelimiter == "."
NamespaceDefault == "default"

\* ------------------------------------------------------- the remote store

\* schema.GroupVersionKind and schema.GroupKind
GVK(group, version, kind) == [group |-> group, version |-> version, kind |-> kind]

GroupKind(gvk) == [group |-> gvk.group, kind |-> gvk.kind]

\* schema.GroupKind.String(): "Kind.group", or "Kind" for the core group.
GKString(gk) == IF gk.group = "" THEN gk.kind ELSE gk.kind \o "." \o gk.group

ConfigMapGVK == GVK("", "v1", "ConfigMap")
DeploymentGVK == GVK("apps", "v1", "Deployment")
FooGVK == GVK("g", "v1", "Foo")
\* A cluster-scoped kind.
NamespaceGVK == GVK("", "v1", "Namespace")
\* Two custom kinds, of the groups "g.io" and "gadget.g.io".
GadgetGVK == GVK("g.io", "v1", "gadget")
TeamGVK == GVK("gadget.g.io", "v1", "team")

\* A REST mapper that knows a namespaced resource for every kind.
RESTMapping_KnowsAll(gk) == "namespace"

\* meta.RESTMapper.RESTMapping: the scope of a known group-kind, "notfound" otherwise.
RESTMapping(gk) ==
    CASE gk = GroupKind(ConfigMapGVK) -> "namespace"
      [] gk = GroupKind(DeploymentGVK) -> "namespace"
      [] gk = GroupKind(FooGVK) -> "namespace"
      [] gk = GroupKind(NamespaceGVK) -> "root"
      [] gk = GroupKind(GadgetGVK) -> "namespace"
      [] gk = GroupKind(TeamGVK) -> "namespace"
      [] OTHER -> "notfound"

\* A nil *unstructured.Unstructured: no object.
NilObject == [gk |-> [group |-> "", kind |-> ""], ns |-> "", name |-> "", uid |-> 0, rv |-> 0,
              labels |-> [x \in {} |-> << >>], body |-> 0]

\* The remote objects with the given group-kind, namespace and name (at most one).
StoreLookup(st, gk, ns, name) ==
    {o \in st : o.gk = gk /\ o.ns = ns /\ o.name = name}

\* An apply that gives the object a new resourceVersion whatever it changes.
ServerSideApply_AlwaysWrites(st, gk, ns, name, labels, body, uid, rv) ==
    LET found == StoreLookup(st, gk, ns, name)
    IN IF found = {}
       THEN [gk |-> gk, ns |-> ns, name |-> name, uid |-> uid, rv |-> rv,
             labels |-> labels, body |-> body]
       ELSE [(CHOOSE o \in found : TRUE) EXCEPT
                !.labels = MapMerge(@, labels), !.body = body, !.rv = rv]

\* dynamic.ResourceInterface.Apply with Force: the object the server answers
\* with.  A request that changes nothing keeps the resourceVersion; a
\* created object gets the fresh uid; labels are merged field by field.
ServerSideApply(st, gk, ns, name, labels, body, uid, rv) ==
    LET found == StoreLookup(st, gk, ns, name)
    IN IF found = {}
       THEN [gk |-> gk, ns |-> ns, name |-> name, uid |-> uid, rv |-> rv,
             labels |-> labels, body |-> body]
       ELSE LET old == CHOOSE o \in found : TRUE
                merged == MapMerge(old.labels, labels)
            IN IF merged = old.labels /\ body = old.body
               THEN old
               ELSE [old EXCEPT !.labels = merged, !.body = body, !.rv = rv]

\* The store after the answer `obj` of an apply has been persisted.
StorePut(st, obj) == (st \ StoreLookup(st, obj.gk, obj.ns, obj.name)) \cup {obj}

\* The store after a delete of the named object.
StoreDelete(st, gk, ns, name) == st \ StoreLookup(st, gk, ns, name)

\* ------------------------------------------------------------ the owner

\* The identity of the owner (parent) every engine of the model is bound to.
ParentIdentity == [name |-> "app", namespace |-> "ns1", gvk |-> FooGVK]

\* --------------------------------------------------------------- inputs

\* The objects a caller may hand to Add.
ObjA == [ID |-> "a", gvk |-> ConfigMapGVK, ns |-> "ns1", name |-> "a",
         labels |-> NilMap, body |-> 1, marshalable |-> TRUE, unstructured |-> TRUE,
         ExternalRef |-> FALSE]
ObjB == [ID |-> "b", gvk |-> DeploymentGVK, ns |-> "ns2", name |-> "b",
         labels |-> NilMap, body |-> 1, marshalable |-> TRUE, unstructured |-> TRUE,
         ExternalRef |-> FALSE]
\* The caller ID of ObjA on another remote identity.
ObjD == [ID |-> "a", gvk |-> DeploymentGVK, ns |-> "ns2", name |-> "d",
         labels |-> NilMap, body |-> 1, marshalable |-> TRUE, unstructured |-> TRUE,
         ExternalRef |-> FALSE]
\* An object the caller marks as discovered, not owned.
ObjE == [ID |-> "e", gvk |-> ConfigMapGVK, ns |-> "ns1", name |-> "e",
         labels |-> NilMap, body |-> 1, marshalable |-> TRUE, unstructured |-> TRUE,
         ExternalRef |-> TRUE]

Candidates == {ObjA, ObjB, ObjE}

\* The remote identity of ObjA under another caller ID.
ObjA2 == [ObjA EXCEPT !.ID = "a2"]
\* A namespaced kind without a namespace.
ObjNoNs == [ObjA EXCEPT !.ID = "n", !.ns = "", !.name = "n"]
\* A cluster-scoped kind without a namespace, and with one.
ObjCluster == [ID |-> "c", gvk |-> NamespaceGVK, ns |-> "", name |-> "c",
               labels |-> NilMap, body |-> 1, marshalable |-> TRUE, unstructured |-> TRUE,
               ExternalRef |-> FALSE]
ObjClusterNs == [ObjCluster EXCEPT !.ID = "c2", !.ns = "ns1", !.name = "c2"]

\* An object json.Marshal fails on.
ObjBad == [ObjA EXCEPT !.ID = "m", !.name = "m", !.marshalable = FALSE]
\* An object of a kind the REST mapper does not know.
ObjUnknown == [ObjA EXCEPT !.ID = "u", !.name = "u", !.gvk = GVK("x", "v1", "Unknown")]
\* An object with labels of its own: one under the key of a tool label, one
\* under the membership key, one under another key.
ObjLabelled ==
    [ObjA EXCEPT !.ID = "l", !.name = "l",
                 !.labels = [k \in {"tool", ApplysetPartOfLabel, "app"} |->
                               CASE k = "tool" -> <<"own">>
                                 [] k = ApplysetPartOfLabel -> <<"applyset-other-v1">>
                                 [] k = "app" -> <<"web">>]]

\* The objects handed to Add when only the Add phase is explored.
WideCandidates ==
    Candidates \cup {ObjD, ObjA2, ObjNoNs, ObjCluster, ObjClusterNs, ObjBad, ObjUnknown,
                     ObjLabelled}

\* ApplySetConfig: the configurations a caller constructs an engine with.
ConfigPlain == [FieldManager |-> "kro", ToolingID |-> [Name |-> "kro", Version |-> "v1"],
                ToolLabels |-> NilMap, callbacks |-> {}]
ConfigCallbacks == [FieldManager |-> "kro", ToolingID |-> [Name |-> "kro", Version |-> "v1"],
                    ToolLabels |-> [x \in {"tool"} |-> <<"kro">>],
                    callbacks |-> {"load", "afterApply", "beforePrune"}]
ConfigNoFieldManager == [FieldManager |-> "", ToolingID |-> [Name |-> "kro", Version |-> "v1"],
                         ToolLabels |-> NilMap, callbacks |-> {}]

Configs == {ConfigPlain, ConfigCallbacks, ConfigNoFieldManager}

\* A remote object that carries the membership label of another set.
ForeignObject == [gk |-> GroupKind(ConfigMapGVK), ns |-> "ns1", name |-> "f", uid |-> 90,
                  rv |-> 90, labels |-> [x \in {ApplysetPartOfLabel} |-> <<"applyset-other-v1">>],
                  body |-> 1]

InitialStores == { {}, {ForeignObject} }

\* --------------------------------------------------- identity and labels

\* sha256 followed by base64.RawURLEncoding: an injective encoding of its input.
Sha256Base64(unencoded) == "sha256(" \o unencoded \o ")"

\* applySet.ID: the label value that identifies the set of the parent.
ID(parent) ==
    LET unencoded == parent.name \o ApplySetIDPartDelimiter \o parent.namespace
                     \o ApplySetIDPartDelimiter \o parent.gvk.kind
                     \o ApplySetIDPartDelimiter \o parent.gvk.group
    IN Str("applyset-" \o Sha256Base64(unencoded) \o "-v1")

\* A label injection in which the object's own label wins over a tool label.
InjectToolLabels_KeepsOwn(a, labels) == MapMerge(a.toolLabels, labels)

\* applySet.InjectToolLabels
InjectToolLabels(a, labels) == MapMerge(labels, a.toolLabels)

\* applySet.InjectApplysetLabels
InjectApplysetLabels(a, labels) == MapSet(labels, ApplysetPartOfLabel, ID(a.parent))

\* ApplySetTooling.String
ToolingString(t) == t.Name \o "/" \o t.Version

\* applySet.desiredParentLabels
desiredParentLabels(a) == MapSet(NilMap, ApplySetParentIDLabel, ID(a.parent))

\* applySet.desiredParentAnnotations
desiredParentAnnotations(a, includeCurrent) ==
    LET desiredGKs == {GKString(gk) : gk \in DOMAIN a.desiredRestMappings}
        gks == IF includeCurrent
               THEN desiredGKs \cup
                    Range(Split(MapGet(a.currentAnnotations, ApplySetGKsAnnotation)))
               ELSE desiredGKs
        gksList == SortStrings(gks)
        \* nss, the union with the recorded namespaces, is computed and not used
        nsList == SortStrings(a.desiredNamespaces)
    IN MapSet(MapSet(MapSet(NilMap,
           ApplySetToolingAnnotation, Str(ToolingString(a.toolingID))),
           ApplySetGKsAnnotation, Join(gksList)),
           ApplySetAdditionalNamespacesAnnotation, Join(nsList))

\* A patch that keeps the recorded scope in either mode.
ParentPatch_AlwaysSuperset(a, mode) ==
    [labels |-> MapMerge(a.parent.labels, desiredParentLabels(a)),
     annotations |-> MapMerge(a.parent.annotations, desiredParentAnnotations(a, TRUE))]

\* The patch updateParentLabelsAndAnnotations builds: the labels and
\* annotations of the parent the engine holds, with the desired ones on top.
ParentPatch(a, mode) ==
    [labels |-> MapMerge(a.parent.labels, desiredParentLabels(a)),
     annotations |-> MapMerge(a.parent.annotations,
                              desiredParentAnnotations(a, mode = "superset"))]

\* The reflect.DeepEqual test of updateParentLabelsAndAnnotations: whether
\* the patch differs from the parent the engine holds.
ParentPatchNeeded(a, mode) ==
    \/ a.parent.labels # ParentPatch(a, mode).labels
    \/ a.parent.annotations # ParentPatch(a, mode).annotations

\* The label and annotation keys the engine writes on the parent.
EngineKeys ==
    {ApplySetParentIDLabel, ApplySetToolingAnnotation, ApplySetGKsAnnotation,
     ApplySetAdditionalNamespacesAnnotation}

\* The keys of the map `applied` that are in the map `stored` under another
\* value and are not the engine's: fields another manager has set since.
ForeignConflicts(stored, applied) ==
    {k \in (DOMAIN applied \cap DOMAIN stored) \ EngineKeys : stored[k] # applied[k]}

\* A parent apply that is forced: it never meets a conflict.
ParentApplyConflict_Forced(stored, patch) == FALSE

\* parentClient.Apply with Force: false: the store refuses a patch that sets
\* a field of another manager to another value.
ParentApplyConflict(stored, patch) ==
    \/ ForeignConflicts(stored.labels, patch.labels) # {}
    \/ ForeignConflicts(stored.annotations, patch.annotations) # {}

\* parentClient.Apply: the stored owner after the patch has been merged in.
ParentApply(stored, patch) ==
    [stored EXCEPT !.labels = MapMerge(stored.labels, patch.labels),
                   !.annotations = MapMerge(stored.annotations, patch.annotations)]

\* ------------------------------------------------------------- tracker

NewTracker == [objects |-> << >>, serverIDs |-> {}, clientIDs |-> {}]

k8sObjectKey(obj) == [gvk |-> obj.gvk, ns |-> obj.ns, name |-> obj.name]

\* tracker.Add: the tracker after the call and the error it returns ("" for nil).
TrackerAdd(t, obj) ==
    LET objectKey == k8sObjectKey(obj)
        t1 == [t EXCEPT !.serverIDs = @ \cup {objectKey}]
        t2 == [t1 EXCEPT !.clientIDs = @ \cup {obj.ID}]
    IN IF objectKey \in t.serverIDs
       THEN [t |-> t, err |-> "duplicate object"]
       ELSE IF obj.ID \in t1.clientIDs
       THEN [t |-> t1, err |-> "duplicate object ID"]
       ELSE IF ~obj.marshalable
       THEN [t |-> t2, err |-> "not json marshallable"]
       ELSE [t |-> [t2 EXCEPT !.objects = Append(@, obj)], err |-> ""]

\* A tracker that reports no object.
TrackerLen_Zero(t) == 0

\* tracker.Len
TrackerLen(t) == Len(t.objects)

\* ---------------------------------------------------------- ApplyResult

\* ApplyResult.recordApplied
recordApplied(results, obj, lastApplied, err) ==
    [results EXCEPT !.AppliedObjects =
        Append(@, [obj |-> obj, LastApplied |-> lastApplied, Error |-> err])]

\* AppliedUIDs that forgets the applied objects.
AppliedUIDs_Empty(results) == {}

\* ApplyResult.AppliedUIDs
AppliedUIDs(results) ==
    {results.AppliedObjects[i].LastApplied.uid :
        i \in {k \in 1..Len(results.AppliedObjects) : results.AppliedObjects[k].Error = ""}}

\* ApplyErrors that reports only a count mismatch.
ApplyErrors_OnlyCount(results) ==
    IF Len(results.AppliedObjects) # results.Desired
    THEN <<"expected applied objects mismatch">> ELSE << >>

\* ApplyErrors that reports only the errors of the recorded objects.
ApplyErrors_OnlyRecorded(results) ==
    SelectSeq([i \in 1..Len(results.AppliedObjects) |-> results.AppliedObjects[i].Error],
              LAMBDA e : e # "")

\* ApplyResult.ApplyErrors: the errors joined, << >> for nil.
ApplyErrors(results) ==
    (IF Len(results.AppliedObjects) # results.Desired
     THEN <<"expected applied objects mismatch">> ELSE << >>)
    \o SelectSeq([i \in 1..Len(results.AppliedObjects) |-> results.AppliedObjects[i].Error],
                 LAMBDA e : e # "")

\* PruneErrors that reports nothing.
PruneErrors_None(results) == << >>

\* ApplyResult.PruneErrors: the errors joined, << >> for nil.
PruneErrors(results) ==
    SelectSeq([i \in 1..Len(results.PrunedObjects) |-> results.PrunedObjects[i].Error],
              LAMBDA e : e # "")

\* AppliedObject.HasClusterMutation
AppliedHasClusterMutation(ao) ==
    IF ao.Error # "" THEN FALSE
    ELSE IF ao.LastApplied = NilObject THEN FALSE
    ELSE ao.obj.lastReadRevision # ao.LastApplied.rv

\* HasClusterMutation that looks at the first applied object only.
HasClusterMutation_FirstOnly(results) ==
    /\ Len(results.AppliedObjects) > 0
    /\ AppliedHasClusterMutation(results.AppliedObjects[1])

\* ApplyResult.HasClusterMutation
HasClusterMutation(results) ==
    \E i \in 1..Len(results.AppliedObjects) :
        AppliedHasClusterMutation(results.AppliedObjects[i])

\* ------------------------------------------------------------ the engine

\* The parent object an engine is constructed with: the owner as now stored.
ParentObject(stored) ==
    [name |-> ParentIdentity.name, namespace |-> ParentIdentity.namespace,
     gvk |-> ParentIdentity.gvk, labels |-> stored.labels,
     annotations |-> stored.annotations]

\* The applySet struct.
EngineOf(parent, config) ==
    [parent |-> parent,
     toolingID |-> config.ToolingID,
     toolLabels |-> config.ToolLabels,
     fieldManager |-> config.FieldManager,
     currentLabels |-> NilMap,
     currentAnnotations |-> NilMap,
     desiredRestMappings |-> [gk \in {} |-> ""],
     desiredNamespaces |-> {},
     desired |-> NewTracker,
     callbacks |-> config.callbacks]

\* No engine: the state before the first construction and after a failed one.
NoEngine ==
    EngineOf(ParentObject([labels |-> NilMap, annotations |-> NilMap]),
             [FieldManager |-> "", ToolingID |-> [Name |-> "", Version |-> ""],
              ToolLabels |-> NilMap, callbacks |-> {}])

\* NewApplySet: the engine and the error ("" for nil).
NewApplySet(parent, config) ==
    IF config.ToolingID = [Name |-> "", Version |-> ""]
    THEN [aset |-> NoEngine, err |-> "toolingID is required"]
    ELSE IF config.FieldManager = ""
    THEN [aset |-> NoEngine, err |-> "fieldManager is required"]
    ELSE IF RESTMapping(GroupKind(parent.gvk)) = "notfound"
    THEN [aset |-> NoEngine, err |-> "rest mapping not found for parent kind"]
    ELSE [aset |-> EngineOf(parent, config), err |-> ""]

\* applySet.ResourceClient: whether a client exists and the namespace it is bound to
\* ("" for a cluster-scoped resource).
ResourceClient(aset, obj) ==
    LET gk == GroupKind(obj.gvk)
    IN IF gk \notin DOMAIN aset.desiredRestMappings
       THEN [nil |-> TRUE, ns |-> ""]
       ELSE IF aset.desiredRestMappings[gk] = "namespace"
       THEN [nil |-> FALSE,
             ns |-> IF obj.ns # "" THEN obj.ns
                    ELSE IF aset.parent.namespace # "" THEN aset.parent.namespace
                    ELSE NamespaceDefault]
       ELSE [nil |-> FALSE, ns |-> ""]

\* One request of the engine to the remote store, as recorded in the log.
Request(op, gk, ns, name, arg) ==
    [op |-> op, gk |-> gk, ns |-> ns, name |-> name, arg |-> arg]

\* An Add that never records what it read.
lastReadRevision_Unset(observed) == 0

\* The lastReadRevision Add gives the object: the resourceVersion of the
\* object it read, the zero value when the store has none.
lastReadRevision(observed) ==
    IF observed = {} THEN 0 ELSE (CHOOSE o \in observed : TRUE).rv

\* applySet.Add (with validateAndCacheRestMapping and validateAndCacheNamespace):
\* the engine after the call, the error returned ("" for nil) and the
\* requests sent.  getFails: the Get answers an error other than not-found;
\* loadFails: the load callback returns an error.
AddResult(aset, obj, st, getFails, loadFails) ==
    LET gk == GroupKind(obj.gvk)
        found == gk \in DOMAIN aset.desiredRestMappings
        a1 == IF found THEN aset
              ELSE [aset EXCEPT !.desiredRestMappings = MapSet(@, gk, RESTMapping(gk))]
        scope == a1.desiredRestMappings[gk]
        a2 == IF scope = "namespace"
              THEN [a1 EXCEPT !.desiredNamespaces = @ \cup {obj.ns}]
              ELSE a1
        labelled == [obj EXCEPT
                        !.labels = InjectApplysetLabels(aset, InjectToolLabels(aset, obj.labels))]
        client == ResourceClient(a2, labelled)
        get == <<Request("get", gk, client.ns, obj.name, "")>>
        observed == StoreLookup(st, gk, client.ns, obj.name)
        read == [gvk |-> labelled.gvk, ns |-> labelled.ns, name |-> labelled.name,
                 ID |-> labelled.ID, labels |-> labelled.labels, body |-> labelled.body,
                 marshalable |-> labelled.marshalable,
                 unstructured |-> labelled.unstructured,
                 ExternalRef |-> labelled.ExternalRef,
                 lastReadRevision |-> lastReadRevision(observed)]
        tr == TrackerAdd(a2.desired, read)
        a3 == [a2 EXCEPT !.desired = tr.t]
    IN IF ~found /\ RESTMapping(gk) = "notfound"
       THEN [aset |-> aset, err |-> "rest mapping not found", io |-> << >>]
       ELSE IF scope = "root" /\ obj.ns # ""
       THEN [aset |-> a1, err |-> "namespace was provided for cluster-scoped object",
             io |-> << >>]
       ELSE IF scope \notin {"namespace", "root"}
       THEN [aset |-> a1, err |-> "unknown scope", io |-> << >>]
       ELSE IF client.nil
       THEN [aset |-> a2, err |-> "FATAL: rest mapping not found", io |-> << >>]
       ELSE IF getFails
       THEN [aset |-> a2, err |-> "error getting object from cluster", io |-> get]
       ELSE IF tr.err # ""
       THEN [aset |-> a3, err |-> tr.err, io |-> get]
       ELSE IF "load" \in aset.callbacks /\ loadFails
       THEN [aset |-> a3, err |-> "load callback error", io |-> get]
       ELSE [aset |-> a3, err |-> "", io |-> get]

\* Whether Add reaches its Get request, and its load callback.
AddReachesGet(aset, obj, st) ==
    AddResult(aset, obj, st, TRUE, FALSE).err = "error getting object from cluster"

AddReachesLoad(aset, obj, st) ==
    AddResult(aset, obj, st, FALSE, TRUE).err = "load callback error"

\* schema.ParseGroupKind on a token of the group-kind annotation, for the
\* group-kinds the store knows: the empty set for any other token.
ParseGroupKind(token) ==
    {gk \in {GroupKind(ConfigMapGVK), GroupKind(DeploymentGVK), GroupKind(FooGVK),
              GroupKind(NamespaceGVK)} :
        GKString(gk) = token}

\* FindAllObjectsToPrune: the remote objects in the scope of the set (the
\* group-kinds and namespaces of this pass and those recorded on the parent
\* when the pass began) that carry the membership label of the set and whose
\* uid is not among visitedUids.
FindAllObjectsToPrune(aset, st, visitedUids) ==
    LET recordedGKs == UNION {ParseGroupKind(t) :
            t \in Range(Split(MapGet(aset.currentAnnotations, ApplySetGKsAnnotation)))}
        scopeGKs == {gk \in (DOMAIN aset.desiredRestMappings) \cup recordedGKs :
                        RESTMapping(gk) # "notfound"}
        scopeNamespaces == aset.desiredNamespaces \cup
            Range(Split(MapGet(aset.currentAnnotations,
                               ApplySetAdditionalNamespacesAnnotation)))
        members == {o \in st :
                      /\ o.gk \in scopeGKs
                      /\ RESTMapping(o.gk) = "namespace" => o.ns \in scopeNamespaces
                      /\ MapGet(o.labels, ApplysetPartOfLabel) = ID(aset.parent)
                      /\ o.uid \notin visitedUids}
    IN {[Name |-> o.name, Namespace |-> o.ns, Mapping |-> o.gk, UID |-> o.uid] :
           o \in members}

\* The orders in which a set can come back as a list.
Orderings(S) ==
    {seq \in [1..Cardinality(S) -> S] : \A x \in S : \E i \in DOMAIN seq : seq[i] = x}

\* ---------------------------------------------------------------- state

VARIABLES
    store,          \* the remote objects
    owner,          \* the stored owner: its labels and annotations
    nextUID,        \* the uid the store gives the next created object
    nextRev,        \* the resourceVersion the store gives the next change
    pc,             \* where the current pass stands
    pass,           \* engines constructed so far
    faults,         \* failures so far
    passFaults,     \* failures in the current pass
    a,              \* the applySet of the current pass
    newErr,         \* the error of the last NewApplySet
    addLog,         \* the Add calls made on the engine: object and error
    call,           \* the arguments of Apply / DryRun
    results,        \* the ApplyResult of the pass
    retErr,         \* the error the call returned
    pruneObjects,   \* the list FindAllObjectsToPrune returned
    log,            \* the requests of the pass to the remote store, in order
    prev,           \* what the previous pass was
    peer,           \* the engine of a second owner and that owner, when there is one
    engines,        \* the results of NewApplySet for a choice of owners and configurations
    instance,       \* an instance object: its generation, state and status conditions
    compat          \* a comparison of two schemas: the schemas and the differences found

vars == <<store, owner, nextUID, nextRev, pc, pass, faults, passFaults, a, newErr,
          addLog, call, results, retErr, pruneObjects, log, prev, peer, engines,
          instance, compat>>

\* ------------------------------------------------------ schema comparison

(* A schema is an object schema with properties that are leaves: each has  *)
(* a type and a default, which is nil, a JSON value without bytes, or a    *)
(* value.  The differences found are kept as sets: the code walks Go maps, *)
(* so the order of its lists is not fixed.                                 *)
PropertyRemoved == "PROPERTY_REMOVED"
PropertyAdded == "PROPERTY_ADDED"
TypeChanged == "TYPE_CHANGED"

PropertyNames == {"p", "q"}

\* The leaf schemas.
Leaves == [Type : {"string", "integer"}, Default : {"nil", "empty", "value"}]

\* The object schemas: some of the names as properties, some as required.
Schemas ==
    UNION { [Type : {"object"}, Properties : [names -> Leaves],
             Required : SUBSET PropertyNames] : names \in SUBSET PropertyNames }

DiffResult(breaking, nonBreaking) ==
    [BreakingChanges |-> breaking, NonBreakingChanges |-> nonBreaking]

Change(path, changeType) == [Path |-> path, ChangeType |-> changeType]

\* compareSchemas on two leaves of equal description and without pattern.
compareSchemas(path, oldSchema, newSchema) ==
    IF oldSchema.Type # newSchema.Type
    THEN DiffResult({Change(path \o ".type", TypeChanged)}, {})
    ELSE DiffResult({}, {})

\* A default counts as soon as it is not nil.
hasDefault_NotNil(newProp) == newProp.Default # "nil"

\* hasDefault of compareProperties: a default that is not nil and has bytes.
hasDefault(newProp) == newProp.Default # "nil" /\ newProp.Default # "empty"

\* compareProperties
compareProperties(path, oldSchema, newSchema) ==
    LET old == DOMAIN oldSchema.Properties
        new == DOMAIN newSchema.Properties
        propPath(propName) == path \o ".properties." \o propName
        removed == {Change(propPath(n), PropertyRemoved) : n \in old \ new}
        kept == {compareSchemas(propPath(n), oldSchema.Properties[n],
                                newSchema.Properties[n]) : n \in old \cap new}
        addedBreaking ==
            {Change(propPath(n), PropertyAdded) :
                n \in {m \in new \ old :
                          m \in newSchema.Required /\ ~hasDefault(newSchema.Properties[m])}}
        addedNonBreaking ==
            {Change(propPath(n), PropertyAdded) :
                n \in {m \in new \ old :
                          ~(m \in newSchema.Required /\ ~hasDefault(newSchema.Properties[m]))}}
    IN DiffResult(removed \cup UNION {r.BreakingChanges : r \in kept} \cup addedBreaking,
                  UNION {r.NonBreakingChanges : r \in kept} \cup addedNonBreaking)

\* No comparison made yet.
NoComparison == [made |-> FALSE]

\* ------------------------------------------------------ instance conditions

(* The status conditions of an instance object.  The three conditions the  *)
(* marker sets are the dependents of the root condition Ready.             *)
Ready == "Ready"

Dependents == <<"InstanceManaged", "GraphResolved", "ResourcesReady">>

\* v1alpha1.Condition
Condition(status, reason, message, generation) ==
    [status |-> status, reason |-> reason, message |-> message,
     observedGeneration |-> generation]

\* The messages the failing and the unfinished operations are called with.
Messages == {"setup failed", "still processing"}

\* An instance without a status.
EmptyInstance == [generation |-> 1, state |-> "", conditions |-> NilMap, op |-> ""]

\* An instance with conditions of an earlier reconciliation, one of them not
\* a condition of the marker.
ActiveInstance ==
    [generation |-> 1, state |-> "Active", op |-> "",
     conditions |->
        [t \in {"InstanceManaged", "GraphResolved", "ResourcesReady", "CustomCondition"} |->
            CASE t = "InstanceManaged" ->
                    Condition("True", "Managed", "instance is properly managed", 1)
              [] t = "GraphResolved" ->
                    Condition("False", "ValidationError", "graph validation failed", 1)
              [] t = "ResourcesReady" ->
                    Condition("Unknown", "ResourcesInProgress", "processing 3 resources", 1)
              [] t = "CustomCondition" ->
                    Condition("Unknown", "CustomReason", "custom unknown condition", 1)]]

InitialInstances == {EmptyInstance, ActiveInstance}

\* The dependents that have the given status.
DependentsWith(conds, status) ==
    {i \in 1..Len(Dependents) : conds[Dependents[i]].status = status}

\* The root condition, given the dependents: the first dependent that is False
\* decides, else the first dependent that is Unknown, else it is True.
RootCondition_IgnoresUnknown(conds, generation) ==
    LET false == DependentsWith(conds, "False")
    IN IF false # {}
       THEN LET d == conds[Dependents[CHOOSE i \in false : \A j \in false : i <= j]]
            IN Condition("False", d.reason, d.message, generation)
       ELSE Condition("True", Ready, "", generation)

RootCondition(conds, generation) ==
    LET false == DependentsWith(conds, "False")
        unknown == DependentsWith(conds, "Unknown")
    IN IF false # {}
       THEN LET d == conds[Dependents[CHOOSE i \in false : \A j \in false : i <= j]]
            IN Condition("False", d.reason, d.message, generation)
       ELSE IF unknown # {}
       THEN LET d == conds[Dependents[CHOOSE i \in unknown : \A j \in unknown : i <= j]]
            IN Condition("Unknown", d.reason, d.message, generation)
       ELSE Condition("True", Ready, "", generation)

\* NewConditionsMarkerFor: the conditions the instance has are kept, a
\* dependent it lacks starts Unknown, and Ready follows the dependents.
NewConditionsMarkerFor(inst) ==
    LET all == DOMAIN inst.conditions \cup Range(Dependents)
        conds == [t \in all |->
                    IF t \in DOMAIN inst.conditions THEN inst.conditions[t]
                    ELSE Condition("Unknown", "AwaitingReconciliation", "",
                                   inst.generation)]
    IN [inst EXCEPT !.conditions = MapSet(conds, Ready,
                                          RootCondition(conds, inst.generation))]

\* One condition set through the marker: Ready follows.
SetCondition(inst, type, status, reason, message) ==
    LET mark == NewConditionsMarkerFor(inst)
        conds == MapSet(mark.conditions, type,
                        Condition(status, reason, message, inst.generation))
    IN [mark EXCEPT !.conditions = MapSet(conds, Ready,
                                          RootCondition(conds, inst.generation))]

\* The operations of ConditionsMarker.
InstanceManaged(inst) ==
    SetCondition(inst, "InstanceManaged", "True", "Managed",
                 "instance is properly managed with finalizers and labels")

InstanceNotManaged(inst, message) ==
    SetCondition(inst, "InstanceManaged", "False", "ManagementFailed", message)

GraphResolved(inst) ==
    SetCondition(inst, "GraphResolved", "True", "Resolved",
                 "runtime graph created and all resources resolved")

GraphNotResolved(inst, message) ==
    SetCondition(inst, "GraphResolved", "False", "ResolutionFailed", message)

ResourcesInProgress(inst, message) ==
    SetCondition(inst, "ResourcesReady", "Unknown", "ResourcesInProgress", message)

ResourcesReady(inst) ==
    SetCondition(inst, "ResourcesReady", "True", "AllResourcesReady",
                 "all resources are created and ready")

ResourcesNotReady(inst, message) ==
    SetCondition(inst, "ResourcesReady", "False", "ResourcesNotReady", message)

\* Controller.updateInstanceStatusOnError: the state becomes ERROR, the
\* conditions go through the marker unchanged.
updateInstanceStatusOnError_ResetsConditions(inst) ==
    [NewConditionsMarkerFor([inst EXCEPT !.conditions = NilMap]) EXCEPT !.state = "ERROR"]

updateInstanceStatusOnError(inst) ==
    [NewConditionsMarkerFor(inst) EXCEPT !.state = "ERROR"]

EmptyResult == [Desired |-> 0, AppliedObjects |-> << >>, PrunedObjects |-> << >>]

NoPass == [valid |-> FALSE, adds |-> 0, desired |-> << >>, prune |-> FALSE,
           dryRun |-> FALSE, clean |-> FALSE, toolLabels |-> NilMap, applied |-> << >>]

\* The second owner.
PeerIdentity == [name |-> "app2", namespace |-> "ns1", gvk |-> FooGVK]

\* The parent object the engine of the second owner is constructed with.
PeerParentObject(stored) ==
    [name |-> PeerIdentity.name, namespace |-> PeerIdentity.namespace,
     gvk |-> PeerIdentity.gvk, labels |-> stored.labels,
     annotations |-> stored.annotations]

\* No second engine: the second owner as created, nothing constructed for it.
NoPeer ==
    [owner |-> [labels |-> NilMap, annotations |-> NilMap],
     pc |-> "idle",
     a |-> EngineOf(PeerParentObject([labels |-> NilMap, annotations |-> NilMap]),
                    ConfigPlain),
     pass |-> 0,
     adds |-> 0,
     prune |-> FALSE,
     results |-> EmptyResult,
     pruneObjects |-> << >>]

Init ==
    /\ store \in InitialStores
    /\ owner = [labels |-> NilMap, annotations |-> NilMap]
    /\ nextUID = 1
    /\ nextRev = 1
    /\ pc = "idle"
    /\ pass = 0
    /\ faults = 0
    /\ passFaults = 0
    /\ a = NoEngine
    /\ newErr = ""
    /\ addLog = << >>
    /\ call = [prune |-> FALSE, dryRun |-> FALSE]
    /\ results = EmptyResult
    /\ retErr = ""
    /\ pruneObjects = << >>
    /\ log = << >>
    /\ prev = NoPass
    /\ peer = NoPeer
    /\ engines = {}
    /\ instance = EmptyInstance
    /\ compat = NoComparison

B2N(b) == IF b THEN 1 ELSE 0

\* n more failures happen in this step.
Fail(n) ==
    /\ faults + n <= MaxFaults
    /\ faults' = faults + n
    /\ passFaults' = passFaults + n

\* The caller constructs an engine for the owner as now stored.
Construct ==
    /\ pc \in {"idle", "done", "crashed"}
    /\ pass < MaxPasses
    /\ \E config \in Configs :
        LET r == NewApplySet(ParentObject(owner), config)
        IN /\ a' = r.aset
           /\ newErr' = r.err
           /\ pc' = IF r.err = "" THEN "adding" ELSE "idle"
           /\ pass' = IF r.err = "" THEN pass + 1 ELSE pass
    /\ prev' = IF pc = "idle" THEN prev
               ELSE [valid |-> TRUE, adds |-> Len(addLog),
                     desired |-> [i \in 1..Len(a.desired.objects) |-> a.desired.objects[i].name],
                     prune |-> call.prune, dryRun |-> call.dryRun,
                     clean |-> pc = "done" /\ retErr = "" /\ passFaults = 0,
                     toolLabels |-> a.toolLabels,
                     applied |-> [i \in 1..Len(results.AppliedObjects) |->
                                    [name |-> results.AppliedObjects[i].obj.name,
                                     ok |-> results.AppliedObjects[i].Error = ""]]]
    /\ addLog' = << >>
    /\ call' = [prune |-> FALSE, dryRun |-> FALSE]
    /\ results' = EmptyResult
    /\ retErr' = ""
    /\ pruneObjects' = << >>
    /\ log' = << >>
    /\ passFaults' = 0
    /\ UNCHANGED <<compat, engines, instance, peer, store, owner, nextUID, nextRev, faults>>

\* applySet.Add on one of the given objects, at most max calls on an engine.
AddFrom(objects, max) ==
    /\ pc = "adding"
    /\ Len(addLog) < max
    /\ \E obj \in objects, getFails \in BOOLEAN, loadFails \in BOOLEAN :
        LET r == AddResult(a, obj, store, getFails, loadFails)
        IN /\ getFails => AddReachesGet(a, obj, store)
           /\ loadFails => ~getFails /\ AddReachesLoad(a, obj, store)
           /\ Fail(B2N(getFails) + B2N(loadFails))
           /\ a' = r.aset
           /\ addLog' = Append(addLog, [name |-> obj.name, ID |-> obj.ID,
                                        gvk |-> obj.gvk,
                                        gk |-> GroupKind(obj.gvk), ns |-> obj.ns,
                                        err |-> r.err])
           /\ log' = log \o r.io
    /\ UNCHANGED <<compat, engines, instance, peer, store, owner, nextUID, nextRev, pc, pass, newErr, call, results,
                   retErr, pruneObjects, prev>>

\* applySet.Add
Add == AddFrom(Candidates, MaxAdds)

\* applyAndPrune that returns after apply whatever prune says.
AfterApply_NeverPrune(prune) == "done"

\* Where applyAndPrune goes once apply has returned without an error.
AfterApply(prune) == IF prune THEN "finding" ELSE "done"

\* An apply loop that stops after its first object.
ApplyLoop_StopsEarly(aset, n, prune) ==
    IF n < 1 /\ n < Len(aset.desired.objects) THEN "applying" ELSE AfterApply(prune)

\* Where the loop of apply stands after n recorded objects.
ApplyLoop(aset, n, prune) ==
    IF n < Len(aset.desired.objects) THEN "applying" ELSE AfterApply(prune)

\* A prune loop that stops after its first object.
PruneLoop_StopsEarly(list, n, dryRun) ==
    IF n < 1 /\ n < Len(list) THEN "pruning" ELSE "done"

\* prune that updates the parent in dry-run too.
AfterPruneLoop_Always(dryRun) == "latest"

\* Where prune goes once its loop has ended.
AfterPruneLoop(dryRun) == IF dryRun THEN "done" ELSE "latest"

\* Where the loop of prune stands after n recorded objects.
PruneLoop(list, n, dryRun) ==
    IF n < Len(list) THEN "pruning" ELSE AfterPruneLoop(dryRun)

\* apply that never updates the parent.
ApplyUpdatesParent_Never(dryRun) == FALSE

\* apply that updates the parent in dry-run too.
ApplyUpdatesParent_Always(dryRun) == TRUE

\* Whether apply takes the parent update before the loop.
ApplyUpdatesParent(dryRun) == ~dryRun

\* Apply(prune) or DryRun(prune) is called: the head of applySet.apply up to
\* its first remote request.
ApplyCall ==
    /\ pc = "adding"
    /\ \E prune \in BOOLEAN, dryRun \in BOOLEAN :
        /\ call' = [prune |-> prune, dryRun |-> dryRun]
        /\ IF ApplyUpdatesParent(dryRun)
           THEN /\ a' = [a EXCEPT !.currentLabels = a.parent.labels,
                                  !.currentAnnotations = a.parent.annotations]
                /\ pc' = "superset"
           ELSE /\ a' = a
                /\ pc' = ApplyLoop(a, 0, prune)
    /\ results' = [Desired |-> TrackerLen(a.desired), AppliedObjects |-> << >>,
                   PrunedObjects |-> << >>]
    /\ UNCHANGED <<compat, engines, instance, peer, store, owner, nextUID, nextRev, pass, faults, passFaults, newErr,
                   addLog, retErr, pruneObjects, log, prev>>

\* updateParentLabelsAndAnnotations: the patch, sent when it differs from the
\* parent the engine holds.  `next` is where the pass goes on success.
UpdateParent(mode, next) ==
    LET patch == ParentPatch(a, mode)
    IN IF ParentPatchNeeded(a, mode)
       THEN \E fails \in BOOLEAN :
               LET refused == fails \/ ParentApplyConflict(owner, patch)
               IN /\ Fail(B2N(fails))
                  /\ log' = Append(log, Request("patchParent", GroupKind(a.parent.gvk),
                                                a.parent.namespace, a.parent.name, mode))
                  /\ owner' = IF refused THEN owner ELSE ParentApply(owner, patch)
                  /\ retErr' = IF refused THEN "unable to update Parent" ELSE ""
                  /\ pc' = IF refused THEN "done" ELSE next
       ELSE /\ pc' = next
            /\ UNCHANGED <<owner, retErr, log, faults, passFaults>>

\* The superset update of the parent, before any child is applied.
SupersetCommit ==
    /\ pc = "superset"
    /\ UpdateParent("superset", ApplyLoop(a, 0, call.prune))
    /\ UNCHANGED <<compat, engines, instance, peer, store, nextUID, nextRev, pass, a, newErr, addLog, call,
                   results, pruneObjects, prev>>

\* The options of the apply requests: the dry-run flag in a dry run.
applyOptions(dryRun) == IF dryRun THEN "dryRun" ELSE ""

\* Delete options that never carry the dry-run flag.
deleteOptions_NeverDryRun(dryRun) == ""

\* The options of the delete requests: the dry-run flag in a dry run.
deleteOptions(dryRun) == IF dryRun THEN "dryRun" ELSE ""

\* An after-apply callback that is called for successful applies only.
AfterApplyCall_OnlySuccess(aset, gk, ns, name, err) ==
    IF "afterApply" \in aset.callbacks /\ err = ""
    THEN <<Request("afterApply", gk, ns, name, err)>>
    ELSE << >>

\* The call of the after-apply callback, when one is configured, as the log
\* records it: the object and the error it is handed.
AfterApplyCall(aset, gk, ns, name, err) ==
    IF "afterApply" \in aset.callbacks
    THEN <<Request("afterApply", gk, ns, name, err)>>
    ELSE << >>

\* An after-apply callback whose error is ignored.
AfterApplyFn_ErrorIgnored(callbackFails, next) == next

\* Where apply goes after the after-apply callback: it returns on an error.
AfterApplyFn(callbackFails, next) == IF callbackFails THEN "done" ELSE next

\* The call of the before-prune callback, when one is configured.
BeforePruneCall(aset, pruneObject) ==
    IF "beforePrune" \in aset.callbacks
    THEN <<Request("beforePrune", pruneObject.Mapping, pruneObject.Namespace,
                   pruneObject.Name, "")>>
    ELSE << >>

\* One iteration of the loop of applySet.apply: the apply request of the next
\* tracked object, its record, and the after-apply callback.
ApplyOne ==
    /\ pc = "applying"
    /\ LET i == Len(results.AppliedObjects) + 1
           obj == a.desired.objects[i]
           gk == GroupKind(obj.gvk)
           client == ResourceClient(a, obj)
       IN IF client.nil \/ ~obj.unstructured
          THEN /\ retErr' = "FATAL"
               /\ pc' = "done"
               /\ UNCHANGED <<store, nextUID, nextRev, results, log, faults, passFaults>>
          ELSE \E applyFails \in BOOLEAN, callbackFails \in BOOLEAN :
                LET answer == ServerSideApply(store, gk, client.ns, obj.name, obj.labels,
                                              obj.body, nextUID, nextRev)
                    lastApplied == IF applyFails THEN NilObject ELSE answer
                    err == IF applyFails THEN "apply failed: " \o obj.name ELSE ""
                    options == applyOptions(call.dryRun)
                    persist == ~applyFails /\ options # "dryRun"
                IN /\ callbackFails => "afterApply" \in a.callbacks
                   /\ Fail(B2N(applyFails) + B2N(callbackFails))
                   /\ log' = Append(log, Request("apply", gk, client.ns, obj.name, options))
                              \o AfterApplyCall(a, gk, client.ns, obj.name, err)
                   /\ store' = IF persist THEN StorePut(store, answer) ELSE store
                   /\ nextUID' = IF persist /\ answer.uid = nextUID
                                 THEN nextUID + 1 ELSE nextUID
                   /\ nextRev' = IF persist /\ answer.rv = nextRev
                                 THEN nextRev + 1 ELSE nextRev
                   /\ results' = recordApplied(results, obj, lastApplied, err)
                   /\ retErr' = IF callbackFails THEN "error after apply" ELSE ""
                   /\ pc' = AfterApplyFn(callbackFails, ApplyLoop(a, i, call.prune))
    /\ UNCHANGED <<compat, engines, instance, peer, owner, pass, a, newErr, addLog, call, pruneObjects, prev>>

\* The head of applySet.prune: the discovery of the objects to prune.
FindPrune ==
    /\ pc = "finding"
    /\ \E fails \in BOOLEAN :
        /\ Fail(B2N(fails))
        /\ log' = Append(log, Request("list", GroupKind(a.parent.gvk), "", "",
                                      AppliedUIDs(results)))
        /\ IF fails
           THEN /\ retErr' = "error finding objects to prune"
                /\ pc' = "done"
                /\ pruneObjects' = << >>
           ELSE \E list \in Orderings(FindAllObjectsToPrune(a, store, AppliedUIDs(results))) :
                /\ pruneObjects' = list
                /\ retErr' = ""
                /\ pc' = PruneLoop(list, 0, call.dryRun)
    /\ UNCHANGED <<compat, engines, instance, peer, store, owner, nextUID, nextRev, pass, a, newErr, addLog, call,
                   results, prev>>

\* One iteration of the loop of applySet.prune: the before-prune callback,
\* the delete request and its record.
PruneOne ==
    /\ pc = "pruning"
    /\ LET i == Len(results.PrunedObjects) + 1
           pruneObject == pruneObjects[i]
       IN \E callbackFails \in BOOLEAN, deleteFails \in BOOLEAN :
            /\ callbackFails => "beforePrune" \in a.callbacks /\ ~deleteFails
            /\ Fail(B2N(callbackFails) + B2N(deleteFails))
            /\ IF callbackFails
               THEN /\ retErr' = "error from before-prune callback"
                    /\ pc' = "done"
                    /\ log' = log \o BeforePruneCall(a, pruneObject)
                    /\ UNCHANGED <<store, results>>
               ELSE LET gone == StoreLookup(store, pruneObject.Mapping,
                                            pruneObject.Namespace, pruneObject.Name) = {}
                        err == IF deleteFails THEN "delete failed: " \o pruneObject.Name
                               ELSE IF gone THEN "not found: " \o pruneObject.Name
                               ELSE ""
                    IN /\ log' = Append(log \o BeforePruneCall(a, pruneObject),
                                        Request("delete", pruneObject.Mapping,
                                            pruneObject.Namespace, pruneObject.Name,
                                            deleteOptions(call.dryRun)))
                       /\ store' = IF deleteFails \/ deleteOptions(call.dryRun) = "dryRun"
                                   THEN store
                                   ELSE StoreDelete(store, pruneObject.Mapping,
                                            pruneObject.Namespace, pruneObject.Name)
                       /\ results' = [results EXCEPT !.PrunedObjects =
                              Append(@, [PruneObject |-> pruneObject, Error |-> err])]
                       /\ retErr' = ""
                       /\ pc' = PruneLoop(pruneObjects, i, call.dryRun)
    /\ UNCHANGED <<compat, engines, instance, peer, owner, nextUID, nextRev, pass, a, newErr, addLog, call,
                   pruneObjects, prev>>

\* The tail of applySet.prune: the update of the parent to the latest set.
LatestCommit ==
    /\ pc = "latest"
    /\ UpdateParent("latest", "done")
    /\ UNCHANGED <<compat, engines, instance, peer, store, nextUID, nextRev, pass, a, newErr, addLog, call,
                   results, pruneObjects, prev>>

\* The process running the pass stops between two requests.
Crash ==
    /\ pc \in {"superset", "applying", "finding", "pruning", "latest"}
    /\ Fail(1)
    /\ pc' = "crashed"
    /\ UNCHANGED <<compat, engines, instance, peer, store, owner, nextUID, nextRev, pass, a, newErr, addLog, call,
                   results, retErr, pruneObjects, log, prev>>

Next ==
    \/ Construct
    \/ Add
    \/ ApplyCall
    \/ SupersetCommit
    \/ ApplyOne
    \/ FindPrune
    \/ PruneOne
    \/ LatestCommit
    \/ Crash

Spec == Init /\ [][Next]_vars

\* The Add phase alone, on a wider choice of objects: an engine just
\* constructed for the owner, and Add calls on it.
InitAdd ==
    /\ store \in InitialStores
    /\ owner = [labels |-> NilMap, annotations |-> NilMap]
    /\ nextUID = 1
    /\ nextRev = 1
    /\ pc = "adding"
    /\ pass = 1
    /\ faults = 0
    /\ passFaults = 0
    /\ a \in {NewApplySet(ParentObject(owner), config).aset :
                config \in {ConfigPlain, ConfigCallbacks}}
    /\ newErr = ""
    /\ addLog = << >>
    /\ call = [prune |-> FALSE, dryRun |-> FALSE]
    /\ results = EmptyResult
    /\ retErr = ""
    /\ pruneObjects = << >>
    /\ log = << >>
    /\ prev = NoPass
    /\ peer = NoPeer
    /\ engines = {}
    /\ instance = EmptyInstance
    /\ compat = NoComparison

AddWide == AddFrom(WideCandidates, MaxWideAdds)

NextAdd == AddWide

SpecAdd == InitAdd /\ [][NextAdd]_vars

\* ------------------------------------------------------ two owners at once

(* A second engine, bound to the second owner, runs one pass against the   *)
(* same store while the engine of the first owner runs its passes; every   *)
(* remote call of either is one step, so that all interleavings occur.     *)
(* Nothing fails here, and neither pass is a dry run.                      *)

\* The objects handed to the engine of the second owner.
PeerCandidates == {ObjB}

\* A pass is between its construction and its return.
Running(p) == p \in {"adding", "superset", "applying", "finding", "pruning", "latest"}

\* The desired sets of the two passes, while both run, are disjoint.
DisjointDesired ==
    (Running(pc) /\ Running(peer.pc)) =>
        {k8sObjectKey(a.desired.objects[i]) : i \in 1..Len(a.desired.objects)}
        \cap {k8sObjectKey(peer.a.desired.objects[i]) :
                 i \in 1..Len(peer.a.desired.objects)} = {}

\* What the two-owner exploration leaves out: failures, callbacks, dry runs,
\* and desired sets that overlap.
TwoOwnersCase ==
    /\ faults = 0 /\ a.callbacks = {} /\ ~call.dryRun
    /\ DisjointDesired

\* NewApplySet for the second owner as now stored.
PeerConstruct ==
    /\ peer.pc \in {"idle", "done"}
    /\ peer.pass < MaxPeerPasses
    /\ LET r == NewApplySet(PeerParentObject(peer.owner), ConfigPlain)
       IN peer' = [peer EXCEPT !.a = r.aset, !.pc = "adding", !.pass = @ + 1,
                               !.adds = 0, !.prune = FALSE, !.results = EmptyResult,
                               !.pruneObjects = << >>]
    /\ UNCHANGED <<compat, engines, instance, store, owner, nextUID, nextRev, pc, pass, faults, passFaults, a,
                   newErr, addLog, call, results, retErr, pruneObjects, log, prev>>

\* applySet.Add on the second engine.
PeerAdd ==
    /\ peer.pc = "adding"
    /\ peer.adds < MaxPeerAdds
    /\ \E obj \in PeerCandidates :
        LET r == AddResult(peer.a, obj, store, FALSE, FALSE)
        IN peer' = [peer EXCEPT !.a = r.aset, !.adds = @ + 1]
    /\ UNCHANGED <<compat, engines, instance, store, owner, nextUID, nextRev, pc, pass, faults, passFaults, a,
                   newErr, addLog, call, results, retErr, pruneObjects, log, prev>>

\* Apply(prune) on the second engine: the head of applySet.apply.
PeerApplyCall ==
    /\ peer.pc = "adding"
    /\ \E prune \in BOOLEAN :
        peer' = [peer EXCEPT
                    !.prune = prune,
                    !.a = [@ EXCEPT !.currentLabels = peer.a.parent.labels,
                                    !.currentAnnotations = peer.a.parent.annotations],
                    !.results = [Desired |-> TrackerLen(peer.a.desired),
                                 AppliedObjects |-> << >>, PrunedObjects |-> << >>],
                    !.pc = "superset"]
    /\ UNCHANGED <<compat, engines, instance, store, owner, nextUID, nextRev, pc, pass, faults, passFaults, a,
                   newErr, addLog, call, results, retErr, pruneObjects, log, prev>>

\* updateParentLabelsAndAnnotations on the second engine: its patch goes to
\* the second owner.
PeerUpdateParent(mode, next) ==
    peer' = [peer EXCEPT
                !.owner = IF ParentPatchNeeded(peer.a, mode)
                          THEN ParentApply(@, ParentPatch(peer.a, mode)) ELSE @,
                !.pc = next]

PeerSupersetCommit ==
    /\ peer.pc = "superset"
    /\ PeerUpdateParent("superset", ApplyLoop(peer.a, 0, peer.prune))
    /\ UNCHANGED <<compat, engines, instance, store, owner, nextUID, nextRev, pc, pass, faults, passFaults, a,
                   newErr, addLog, call, results, retErr, pruneObjects, log, prev>>

\* One iteration of the apply loop of the second engine.
PeerApplyOne ==
    /\ peer.pc = "applying"
    /\ LET i == Len(peer.results.AppliedObjects) + 1
           obj == peer.a.desired.objects[i]
           gk == GroupKind(obj.gvk)
           client == ResourceClient(peer.a, obj)
           answer == ServerSideApply(store, gk, client.ns, obj.name, obj.labels,
                                     obj.body, nextUID, nextRev)
       IN /\ store' = StorePut(store, answer)
          /\ nextUID' = IF answer.uid = nextUID THEN nextUID + 1 ELSE nextUID
          /\ nextRev' = IF answer.rv = nextRev THEN nextRev + 1 ELSE nextRev
          /\ peer' = [peer EXCEPT
                         !.results = recordApplied(@, obj, answer, ""),
                         !.pc = ApplyLoop(peer.a, i, peer.prune)]
    /\ UNCHANGED <<compat, engines, instance, owner, pc, pass, faults, passFaults, a, newErr, addLog, call,
                   results, retErr, pruneObjects, log, prev>>

\* The head of applySet.prune on the second engine.
PeerFindPrune ==
    /\ peer.pc = "finding"
    /\ \E list \in Orderings(FindAllObjectsToPrune(peer.a, store,
                                                    AppliedUIDs(peer.results))) :
        peer' = [peer EXCEPT !.pruneObjects = list, !.pc = PruneLoop(list, 0, FALSE)]
    /\ UNCHANGED <<compat, engines, instance, store, owner, nextUID, nextRev, pc, pass, faults, passFaults, a,
                   newErr, addLog, call, results, retErr, pruneObjects, log, prev>>

\* One iteration of the prune loop of the second engine.
PeerPruneOne ==
    /\ peer.pc = "pruning"
    /\ LET i == Len(peer.results.PrunedObjects) + 1
           pruneObject == peer.pruneObjects[i]
           gone == StoreLookup(store, pruneObject.Mapping, pruneObject.Namespace,
                               pruneObject.Name) = {}
       IN /\ store' = StoreDelete(store, pruneObject.Mapping, pruneObject.Namespace,
                                  pruneObject.Name)
          /\ peer' = [peer EXCEPT
                         !.results = [@ EXCEPT !.PrunedObjects =
                             Append(@, [PruneObject |-> pruneObject,
                                        Error |-> IF gone
                                                  THEN "not found: " \o pruneObject.Name
                                                  ELSE ""])],
                         !.pc = PruneLoop(peer.pruneObjects, i, FALSE)]
    /\ UNCHANGED <<compat, engines, instance, owner, nextUID, nextRev, pc, pass, faults, passFaults, a, newErr,
                   addLog, call, results, retErr, pruneObjects, log, prev>>

PeerLatestCommit ==
    /\ peer.pc = "latest"
    /\ PeerUpdateParent("latest", "done")
    /\ UNCHANGED <<compat, engines, instance, store, owner, nextUID, nextRev, pc, pass, faults, passFaults, a,
                   newErr, addLog, call, results, retErr, pruneObjects, log, prev>>

InitTwo == Init /\ store = {}

\* A step of the engine of either owner.
NextTwo ==
    \/ Construct /\ TwoOwnersCase'
    \/ Add /\ TwoOwnersCase'
    \/ ApplyCall /\ TwoOwnersCase'
    \/ SupersetCommit /\ TwoOwnersCase'
    \/ ApplyOne /\ TwoOwnersCase'
    \/ FindPrune /\ TwoOwnersCase'
    \/ PruneOne /\ TwoOwnersCase'
    \/ LatestCommit /\ TwoOwnersCase'
    \/ PeerConstruct /\ TwoOwnersCase'
    \/ PeerAdd /\ TwoOwnersCase'
    \/ PeerApplyCall /\ TwoOwnersCase'
    \/ PeerSupersetCommit /\ TwoOwnersCase'
    \/ PeerApplyOne /\ TwoOwnersCase'
    \/ PeerFindPrune /\ TwoOwnersCase'
    \/ PeerPruneOne /\ TwoOwnersCase'
    \/ PeerLatestCommit /\ TwoOwnersCase'

SpecTwo == InitTwo /\ [][NextTwo]_vars

\* ------------------------------------------------------- construction alone

(* NewApplySet on a choice of owners and configurations: the engines it    *)
(* returns and their IDs, side by side.                                    *)

\* A configuration without a tooling ID.
ConfigNoTooling == [FieldManager |-> "kro", ToolingID |-> [Name |-> "", Version |-> ""],
                    ToolLabels |-> NilMap, callbacks |-> {}]

NewConfigs == Configs \cup {ConfigNoTooling}

\* The owners: the owner of the passes; two owners with dots in their names;
\* an owner without a name; a cluster-scoped owner; an owner without kind and group.
OwnerIdentities ==
    { ParentIdentity,
      [name |-> "x.app", namespace |-> "team", gvk |-> GadgetGVK],
      [name |-> "x", namespace |-> "app", gvk |-> TeamGVK],
      [name |-> "", namespace |-> "ns1", gvk |-> FooGVK],
      [name |-> "c", namespace |-> "", gvk |-> NamespaceGVK],
      [name |-> "app", namespace |-> "ns1", gvk |-> GVK("", "", "")] }

\* The parent object of an owner that carries no label and no annotation yet.
ParentOf(identity) ==
    [name |-> identity.name, namespace |-> identity.namespace, gvk |-> identity.gvk,
     labels |-> NilMap, annotations |-> NilMap]

InitNew == Init /\ store = {}

\* One NewApplySet call: the engine and the error it returned.
NewEngine ==
    /\ Cardinality(engines) < MaxEngines
    /\ \E identity \in OwnerIdentities, config \in NewConfigs :
        LET r == NewApplySet(ParentOf(identity), config)
        IN engines' = engines \cup
              { [identity |-> identity, config |-> config, aset |-> r.aset,
                 err |-> r.err] }
    /\ UNCHANGED <<compat, store, owner, nextUID, nextRev, pc, pass, faults, passFaults, a,
                   newErr, addLog, call, results, retErr, pruneObjects, log, prev,
                   peer, instance>>

NextNew == NewEngine

SpecNew == InitNew /\ [][NextNew]_vars

\* ------------------------------------------------- schema comparison alone

\* compareProperties on one pair of schemas.
Compare ==
    /\ compat = NoComparison
    /\ \E oldSchema \in Schemas, newSchema \in Schemas :
        compat' = [made |-> TRUE, oldSchema |-> oldSchema, newSchema |-> newSchema,
                   result |-> compareProperties("spec", oldSchema, newSchema)]
    /\ UNCHANGED <<store, owner, nextUID, nextRev, pc, pass, faults, passFaults, a,
                   newErr, addLog, call, results, retErr, pruneObjects, log, prev,
                   peer, engines, instance>>

NextCompat == Compare

SpecCompat == InitNew /\ [][NextCompat]_vars

\* ------------------------------------------- an owner others write to

(* One pass on an owner that carries a label and an annotation of another  *)
(* manager, which sets, changes and removes them while the pass runs.      *)
\* An owner with a label and an annotation that are not the engine's.
LabelledOwner ==
    [labels |-> [k \in {"team"} |-> <<"x">>], annotations |-> [k \in {"note"} |-> <<"n">>]]

\* m without the key k.
MapDelete(m, k) == [x \in DOMAIN m \ {k} |-> m[x]]

InitOwner ==
    /\ store = {}
    /\ owner \in {[labels |-> NilMap, annotations |-> NilMap], LabelledOwner}
    /\ nextUID = 1
    /\ nextRev = 1
    /\ pc = "adding"
    /\ pass = 1
    /\ faults = 0
    /\ passFaults = 0
    /\ a = NewApplySet(ParentObject(owner), ConfigPlain).aset
    /\ newErr = ""
    /\ addLog = << >>
    /\ call = [prune |-> FALSE, dryRun |-> FALSE]
    /\ results = EmptyResult
    /\ retErr = ""
    /\ pruneObjects = << >>
    /\ log = << >>
    /\ prev = NoPass
    /\ peer = NoPeer
    /\ engines = {}
    /\ instance = EmptyInstance
    /\ compat = NoComparison

\* Another manager sets or removes its label or its annotation on the owner.
EditOwner ==
    /\ \/ \E v \in {<<"x">>, <<"y">>} : owner' = [owner EXCEPT !.labels = MapSet(@, "team", v)]
       \/ owner' = [owner EXCEPT !.labels = MapDelete(@, "team")]
       \/ \E v \in {<<"n">>, <<"m">>} :
             owner' = [owner EXCEPT !.annotations = MapSet(@, "note", v)]
       \/ owner' = [owner EXCEPT !.annotations = MapDelete(@, "note")]
    /\ UNCHANGED <<compat, store, nextUID, nextRev, pc, pass, faults, passFaults, a, newErr,
                   addLog, call, results, retErr, pruneObjects, log, prev, peer,
                   engines, instance>>

AddOwned == AddFrom({ObjA, ObjB}, 1)

NextOwner ==
    \/ AddOwned
    \/ ApplyCall
    \/ SupersetCommit
    \/ ApplyOne
    \/ FindPrune
    \/ LatestCommit
    \/ EditOwner

SpecOwner == InitOwner /\ [][NextOwner]_vars

\* ------------------------------------------------- labelled objects applied

(* One pass up to the end of its apply loop, on objects of which one has   *)
(* labels of its own and one has no namespace.                             *)
LabelCandidates == {ObjA, ObjB, ObjLabelled, ObjNoNs}

AddLabelled == AddFrom(LabelCandidates, MaxLabelAdds)

NextLabels ==
    \/ AddLabelled
    \/ ApplyCall
    \/ SupersetCommit
    \/ ApplyOne

SpecLabels == InitAdd /\ [][NextLabels]_vars

\* ------------------------------------------------- the conditions alone

(* The marker's operations and updateInstanceStatusOnError on one          *)
(* instance, in any order.                                                 *)
InitCond ==
    /\ store = {}
    /\ owner = [labels |-> NilMap, annotations |-> NilMap]
    /\ nextUID = 1
    /\ nextRev = 1
    /\ pc = "idle"
    /\ pass = 0
    /\ faults = 0
    /\ passFaults = 0
    /\ a = NoEngine
    /\ newErr = ""
    /\ addLog = << >>
    /\ call = [prune |-> FALSE, dryRun |-> FALSE]
    /\ results = EmptyResult
    /\ retErr = ""
    /\ pruneObjects = << >>
    /\ log = << >>
    /\ prev = NoPass
    /\ peer = NoPeer
    /\ engines = {}
    /\ instance \in InitialInstances
    /\ compat = NoComparison

\* The instance after the operation op; op is kept with it.
Marked(op, inst) ==
    /\ instance' = [inst EXCEPT !.op = op]
    /\ UNCHANGED <<compat, store, owner, nextUID, nextRev, pc, pass, faults, passFaults, a,
                   newErr, addLog, call, results, retErr, pruneObjects, log, prev,
                   peer, engines>>

MarkInstanceManaged == Marked("InstanceManaged", InstanceManaged(instance))

MarkInstanceNotManaged ==
    \E message \in Messages :
        Marked("InstanceNotManaged", InstanceNotManaged(instance, message))

MarkGraphResolved == Marked("GraphResolved", GraphResolved(instance))

MarkGraphNotResolved ==
    \E message \in Messages :
        Marked("GraphNotResolved", GraphNotResolved(instance, message))

MarkResourcesInProgress ==
    \E message \in Messages :
        Marked("ResourcesInProgress", ResourcesInProgress(instance, message))

MarkResourcesReady == Marked("ResourcesReady", ResourcesReady(instance))

MarkResourcesNotReady ==
    \E message \in Messages :
        Marked("ResourcesNotReady", ResourcesNotReady(instance, message))

UpdateInstanceStatusOnError ==
    Marked("updateInstanceStatusOnError", updateInstanceStatusOnError(instance))

NextCond ==
    \/ MarkInstanceManaged
    \/ MarkInstanceNotManaged
    \/ MarkGraphResolved
    \/ MarkGraphNotResolved
    \/ MarkResourcesInProgress
    \/ MarkResourcesReady
    \/ MarkResourcesNotReady
    \/ UpdateInstanceStatusOnError

SpecCond == InitCond /\ [][NextCond]_vars

\* --------------------------------------------------------------- claims

\* The store holds the named object.
InStore(gk, ns, name) == StoreLookup(store, gk, ns, name) # {}

\* The names of the tracked objects, in order.
TrackedNames == [i \in 1..Len(a.desired.objects) |-> a.desired.objects[i].name]

\* The requests of the log with the given operation, in order.
Requests(op) == SelectSeq(log, LAMBDA r : r.op = op)

\* The uids of the applied objects recorded without error.
SuccessUIDs ==
    {ao.LastApplied.uid : ao \in {x \in Range(results.AppliedObjects) : x.Error = ""}}

\* A pass in which Apply(prune=true) returned nil and nothing failed.
CleanPrunePass ==
    /\ pc = "done" /\ retErr = "" /\ passFaults = 0
    /\ call.prune /\ ~call.dryRun
    /\ \A i \in 1..Len(addLog) : addLog[i].err = ""

\* The first pass of the scenario: A and B added, Apply(prune=true).
FirstPassAB ==
    /\ pass = 1 /\ CleanPrunePass
    /\ TrackedNames \in {<<"a", "b">>, <<"b", "a">>}

\* The second pass of the scenario: after that first pass, only A added.
SecondPassA ==
    /\ pass = 2 /\ CleanPrunePass
    /\ prev.valid /\ prev.clean /\ prev.prune /\ ~prev.dryRun /\ prev.adds = 2
    /\ prev.desired \in {<<"a", "b">>, <<"b", "a">>}
    /\ TrackedNames = <<"a">>

\* C1: in the two-pass scenario the first pass (A and B, prune) applies both
\* and prunes nothing; the second pass (only A, prune) deletes B from the
\* store, reports B in PrunedObjects with a nil error, and leaves A present.
C1_TwoPassPrune ==
    /\ FirstPassAB =>
        /\ results.PrunedObjects = << >>
        /\ Len(results.AppliedObjects) = 2
        /\ \A i \in 1..2 : results.AppliedObjects[i].Error = ""
        /\ InStore(GroupKind(ConfigMapGVK), "ns1", "a")
        /\ InStore(GroupKind(DeploymentGVK), "ns2", "b")
    /\ SecondPassA =>
        /\ ~InStore(GroupKind(DeploymentGVK), "ns2", "b")
        /\ Len(results.PrunedObjects) = 1
        /\ results.PrunedObjects[1].PruneObject.Name = "b"
        /\ results.PrunedObjects[1].PruneObject.Mapping = GroupKind(DeploymentGVK)
        /\ results.PrunedObjects[1].Error = ""
        /\ InStore(GroupKind(ConfigMapGVK), "ns1", "a")

C1_Witness == SecondPassA

\* C2: with prune requested, the list of objects to prune is asked for with
\* exactly the uids of the applied objects recorded without error; no object
\* with such a uid is a prune candidate, is reported in PrunedObjects, or is
\* missing from the store once applied by a non-dry-run pass.
C2_AppliedNeverPruned ==
    /\ \A r \in Range(Requests("list")) : r.arg = SuccessUIDs
    /\ \A po \in Range(pruneObjects) : po.UID \notin SuccessUIDs
    /\ \A p \in Range(results.PrunedObjects) : p.PruneObject.UID \notin SuccessUIDs
    /\ (pc \in {"finding", "pruning", "latest", "done", "crashed"} /\ ~call.dryRun) =>
          \A u \in SuccessUIDs : \E o \in store : o.uid = u

C2_Witness ==
    /\ pc = "done" /\ call.prune /\ ~call.dryRun
    /\ SuccessUIDs # {}
    /\ \E p \in Range(results.PrunedObjects) : p.Error = ""

\* The tokens of an annotation value.
Tokens(value) == Range(Split(value))

\* The scope an annotation value records: its non-empty tokens.
RecordedScope(value) == {t \in Tokens(value) : t # ""}

\* The group-kind and namespace scope annotations of the stored owner.
OwnerGKs == MapGet(owner.annotations, ApplySetGKsAnnotation)

OwnerNamespaces == MapGet(owner.annotations, ApplySetAdditionalNamespacesAnnotation)

\* The scope recorded on the owner when the pass began.
RecordedGKs == RecordedScope(MapGet(a.parent.annotations, ApplySetGKsAnnotation))

RecordedNamespaces ==
    RecordedScope(MapGet(a.parent.annotations, ApplySetAdditionalNamespacesAnnotation))

\* The Add calls of the pass that returned nil.
AddedOK == {e \in Range(addLog) : e.err = ""}

\* The Add calls of the pass whose kind resolved to a mapping.
AddedMapped == {e \in Range(addLog) : RESTMapping(e.gk) # "notfound"}

GKsOf(entries) == {GKString(e.gk) : e \in entries}

NamespacesOf(entries) == {e.ns : e \in {x \in entries : RESTMapping(x.gk) = "namespace"}}

\* A superset patch stands in the log before every child apply request.
SupersetPatchFirst ==
    \E i \in DOMAIN log :
        /\ log[i].op = "patchParent" /\ log[i].arg = "superset"
        /\ \A j \in DOMAIN log : log[j].op = "apply" => i < j

\* The group-kind of every child applied without error is in the stored scope.
AppliedGKsRecorded ==
    \A ao \in Range(results.AppliedObjects) :
        ao.Error = "" => GKString(GroupKind(ao.obj.gvk)) \in Tokens(OwnerGKs)

\* A non-dry-run pass that has issued a child apply request.
ChildApplied == ~call.dryRun /\ Requests("apply") # << >>

\* C3 as stated: in every non-dry-run pass the superset patch of the owner is
\* issued and completed before the first child apply request, and the
\* group-kind of every applied child is in the persisted scope annotation.
C3_Original == ChildApplied => SupersetPatchFirst /\ AppliedGKsRecorded

\* C3 as amended: the superset patch is issued and completed before the first
\* child apply request unless the owner the engine was built from already
\* carries the superset labels and annotations (then none is sent); either
\* way the group-kind of every applied child is in the persisted scope
\* annotation at every later point of the pass, an interruption included.
C3_SupersetBeforeApply ==
    ChildApplied =>
        /\ ParentPatchNeeded(a, "superset") => SupersetPatchFirst
        /\ ~ParentPatchNeeded(a, "superset") =>
              \A r \in Range(Requests("patchParent")) : r.arg # "superset"
        /\ AppliedGKsRecorded

C3_Witness ==
    /\ pc = "crashed" /\ ~call.dryRun
    /\ ~ParentPatchNeeded(a, "superset")
    /\ \E ao \in Range(results.AppliedObjects) : ao.Error = ""
    /\ Len(results.AppliedObjects) < Len(a.desired.objects)

\* The superset commit of a non-dry-run pass is done and no latest commit yet,
\* in a pass whose Add calls all returned nil, nothing having failed so far.
SupersetCommitted ==
    /\ ~call.dryRun /\ pc \in {"applying", "finding", "pruning", "latest"}
    /\ \A i \in 1..Len(addLog) : addLog[i].err = ""
    /\ faults = 0

\* C4: after the superset commit the group-kind annotation of the owner is the
\* sorted comma-joined list of the recorded group-kinds and those of the
\* objects added in this pass.
C4_SupersetGKs ==
    SupersetCommitted =>
        OwnerGKs = Join(SortStrings(RecordedGKs \cup GKsOf(AddedOK)))

\* C5: after the superset commit the namespace annotation of the owner is the
\* sorted comma-joined list of the recorded namespaces and those of the
\* namespaced objects added in this pass.
C5_SupersetNamespaces ==
    SupersetCommitted =>
        OwnerNamespaces = Join(SortStrings(RecordedNamespaces \cup NamespacesOf(AddedOK)))

\* A non-dry-run Apply(prune=true) that returned nil.
PruneReturnedNil == pc = "done" /\ retErr = "" /\ call.prune /\ ~call.dryRun

\* C6 as stated: after such a pass the scope annotations of the owner are
\* exactly the sorted group-kinds and namespaces of the objects added.
C6_Original ==
    PruneReturnedNil =>
        /\ OwnerGKs = Join(SortStrings(GKsOf(AddedOK)))
        /\ OwnerNamespaces = Join(SortStrings(NamespacesOf(AddedOK)))

\* C6 as amended: after such a pass the scope annotations of the owner are
\* exactly the sorted group-kinds and namespaces of the objects handed to Add
\* whose kind resolved to a mapping, those whose Add then failed included;
\* nothing of the previously recorded scope is carried over.
C6_LatestScope ==
    PruneReturnedNil =>
        /\ OwnerGKs = Join(SortStrings(GKsOf(AddedMapped)))
        /\ OwnerNamespaces = Join(SortStrings(NamespacesOf(AddedMapped)))

C6_Witness ==
    /\ PruneReturnedNil
    /\ RecordedGKs \ Tokens(OwnerGKs) # {}
    /\ RecordedNamespaces \ Tokens(OwnerNamespaces) # {}
    /\ AddedMapped # AddedOK

\* The remote objects that carry the membership label of this set.
Members == {o \in store : MapGet(o.labels, ApplysetPartOfLabel) = ID(a.parent)}

\* C7: a group-kind or namespace of the recorded scope is dropped by the
\* latest commit only when no remote object with the membership label of the
\* set remains in it.
C7_ScopeDropsOnlyWhenEmpty ==
    PruneReturnedNil =>
        /\ \A t \in RecordedGKs \ Tokens(OwnerGKs) :
              ~\E o \in Members : GKString(o.gk) = t
        /\ \A n \in RecordedNamespaces \ Tokens(OwnerNamespaces) :
              ~\E o \in Members : o.ns = n

\* C8: the latest commit is reached, and its patch sent, only in a
\* non-dry-run pass with prune requested whose discovery succeeded and whose
\* prune loop recorded every candidate without a before-prune callback error.
C8_LatestOnlyAfterPrune ==
    (pc = "latest" \/ \E r \in Range(Requests("patchParent")) : r.arg = "latest") =>
        /\ ~call.dryRun
        /\ call.prune
        /\ Len(Requests("list")) = 1
        /\ Len(results.PrunedObjects) = Len(pruneObjects)
        /\ Len(Requests("delete")) = Len(pruneObjects)
        /\ retErr \in {"", "unable to update Parent"}

C8_Witness ==
    /\ \E r \in Range(Requests("patchParent")) : r.arg = "latest"
    /\ Len(results.PrunedObjects) > 0

\* C9: DryRun sends no request to the owner, and the stored labels and
\* annotations of the owner stay those the pass began with.
C9_DryRunKeepsOwner ==
    (call.dryRun /\ pc \notin {"idle", "adding"}) =>
        /\ Requests("patchParent") = << >>
        /\ owner.labels = a.parent.labels
        /\ owner.annotations = a.parent.annotations

C9_Witness ==
    /\ call.dryRun /\ call.prune /\ pc = "done"
    /\ Len(results.AppliedObjects) > 0
    /\ Len(results.PrunedObjects) > 0

\* The apply loop of the pass has run to its end.
ApplyLoopEnded ==
    \/ pc \in {"finding", "pruning", "latest"}
    \/ pc = "done" /\ retErr = "" /\ passFaults = 0
    \/ pc = "done" /\ retErr = "" /\ \E ao \in Range(results.AppliedObjects) : ao.Error # ""

\* C10: the child apply requests are those of the tracked objects, each at
\* most once and in the order added; when the loop has ended every tracked
\* object has been attempted, failed ones not stopping later ones; every
\* failed object's error is among ApplyErrors().
C10_ApplyEveryObjectInOrder ==
    pc \notin {"idle", "adding"} =>
        /\ Len(Requests("apply")) <= Len(a.desired.objects)
        /\ \A i \in 1..Len(Requests("apply")) :
              /\ Requests("apply")[i].name = a.desired.objects[i].name
              /\ Requests("apply")[i].gk = GroupKind(a.desired.objects[i].gvk)
        /\ Len(results.AppliedObjects) = Len(Requests("apply"))
        /\ ApplyLoopEnded => Len(Requests("apply")) = Len(a.desired.objects)
        /\ \A ao \in Range(results.AppliedObjects) :
              ao.Error # "" => ao.Error \in Range(ApplyErrors(results))

C10_Witness ==
    /\ pc = "done" /\ retErr = ""
    /\ Len(results.AppliedObjects) = 2
    /\ results.AppliedObjects[1].Error # ""
    /\ results.AppliedObjects[2].Error = ""

\* A non-dry-run Apply(prune=false) that returned nil.
ApplyReturnedNil == pc = "done" /\ retErr = "" /\ ~call.prune /\ ~call.dryRun

\* Every tracked object has an applied record without error.
AllAppliedOK ==
    /\ Len(results.AppliedObjects) = Len(a.desired.objects)
    /\ \A i \in 1..Len(results.AppliedObjects) : results.AppliedObjects[i].Error = ""

\* The Add calls that got their object into the tracked list: those that
\* returned nil and those that failed in the load callback only.
AddsTracked == {i \in 1..Len(addLog) : addLog[i].err \in {"", "load callback error"}}

\* C11 as stated: after Apply(prune=false) returned nil, Desired is the number
\* of Add calls made, and ApplyErrors() is nil iff every tracked object was
\* applied without error.
C11_Original ==
    ApplyReturnedNil =>
        /\ results.Desired = Len(addLog)
        /\ (ApplyErrors(results) = << >>) <=> AllAppliedOK

\* C11 as amended: after Apply(prune=false) returned nil, Desired is the
\* number of Add calls that put their object in the tracked list (an Add that
\* failed before that is not counted), and ApplyErrors() is nil iff every
\* tracked object was applied without error.
C11_DesiredCountsTracked ==
    ApplyReturnedNil =>
        /\ results.Desired = Cardinality(AddsTracked)
        /\ results.Desired = Len(a.desired.objects)
        /\ (ApplyErrors(results) = << >>) <=> AllAppliedOK

C11_Witness ==
    /\ ApplyReturnedNil
    /\ Len(addLog) = 2 /\ results.Desired = 1
    /\ results.AppliedObjects[1].Error # ""

\* The remote identity an Add call was made with.
AddKey(e) == [gvk |-> e.gvk, ns |-> e.ns, name |-> e.name]

\* The remote identities and the caller IDs of the tracked objects.
TrackedKeys(t) == {k8sObjectKey(t.objects[i]) : i \in 1..Len(t.objects)}

TrackedIDs(t) == {t.objects[i].ID : i \in 1..Len(t.objects)}

\* The last Add call made on the engine.
LastAdd == addLog[Len(addLog)]

\* C12: an Add whose remote identity is that of a tracked object fails with
\* the duplicate-object error; an Add whose caller ID is that of a tracked
\* object and whose remote identity is that of none fails with the
\* duplicate-ID error; neither extends the tracked list.  (An Add whose read
\* of the store failed is left aside.)
C12_DuplicatesRejected ==
    [][(Len(addLog') = Len(addLog) + 1
          /\ LastAdd'.err # "error getting object from cluster") =>
        /\ AddKey(LastAdd') \in TrackedKeys(a.desired) =>
              /\ LastAdd'.err = "duplicate object"
              /\ a'.desired.objects = a.desired.objects
        /\ (LastAdd'.ID \in TrackedIDs(a.desired)
              /\ AddKey(LastAdd') \notin TrackedKeys(a.desired)) =>
              /\ LastAdd'.err = "duplicate object ID"
              /\ a'.desired.objects = a.desired.objects]_vars

\* The errors that report a namespace wrong for the scope of the kind.
ScopeMismatchErrors ==
    {"namespace was provided for cluster-scoped object",
     "namespace was not provided for namespace-scoped object"}

\* C13: an Add of a namespaced kind without a namespace, and an Add of a
\* cluster-scoped kind with a namespace, fail with a scope-mismatch error.
C13_ScopeMismatch ==
    \A i \in 1..Len(addLog) :
        LET e == addLog[i]
        IN (\/ RESTMapping(e.gk) = "namespace" /\ e.ns = ""
            \/ RESTMapping(e.gk) = "root" /\ e.ns # "")
           => e.err \in ScopeMismatchErrors

\* The positions of the log that hold a request with the given operation.
Positions(op) == {i \in DOMAIN log : log[i].op = op}

\* The i-th apply request of the log is followed at once by the call of the
\* after-apply callback with the object and the error recorded for it.
CallbackFollowsApply(i) ==
    \E p \in Positions("apply") :
        /\ Cardinality({q \in Positions("apply") : q <= p}) = i
        /\ p + 1 \in DOMAIN log
        /\ log[p + 1].op = "afterApply"
        /\ log[p + 1].name = results.AppliedObjects[i].obj.name
        /\ log[p + 1].gk = GroupKind(results.AppliedObjects[i].obj.gvk)
        /\ log[p + 1].arg = results.AppliedObjects[i].Error

\* C14: with an after-apply callback configured, every object applied without
\* error is handed to it right after its apply; when the callback returns an
\* error the pass is over: the call has returned a non-nil error with the
\* objects recorded so far, the callback was the last thing done, no later
\* object is applied, nothing is listed or deleted and no latest commit sent.
C14_AfterApplyAborts ==
    /\ "afterApply" \in a.callbacks =>
          \A i \in 1..Len(results.AppliedObjects) :
              results.AppliedObjects[i].Error = "" => CallbackFollowsApply(i)
    /\ retErr = "error after apply" =>
          /\ pc = "done"
          /\ log # << >> /\ log[Len(log)].op = "afterApply"
          /\ Len(results.AppliedObjects) = Len(Requests("apply"))
          /\ Len(results.AppliedObjects) >= 1
          /\ results.PrunedObjects = << >>
          /\ Requests("list") = << >> /\ Requests("delete") = << >>
          /\ \A r \in Range(Requests("patchParent")) : r.arg # "latest"

C14_Witness ==
    /\ retErr = "error after apply" /\ call.prune /\ ~call.dryRun
    /\ Len(results.AppliedObjects) = 1 /\ Len(a.desired.objects) = 2
    /\ results.AppliedObjects[1].Error = ""

\* The prune loop of the pass has run to its end.
PruneLoopEnded ==
    \/ pc = "latest"
    \/ /\ pc = "done" /\ call.prune /\ Requests("list") # << >>
       /\ retErr \in {"", "unable to update Parent"}

\* The candidate is still in the store.
CandidateInStore(po) == InStore(po.Mapping, po.Namespace, po.Name)

\* C15: a configured before-prune callback is called for a candidate right
\* before its delete request; when it returns an error the pass is over and
\* this candidate and the remaining ones are not deleted; a delete error is
\* recorded on the PrunedObject of its candidate, which stays in the store,
\* and once the loop has ended every candidate has been recorded, in order.
C15_PrunePerCandidate ==
    /\ "beforePrune" \in a.callbacks =>
          \A p \in Positions("delete") :
              /\ p - 1 \in DOMAIN log
              /\ log[p - 1].op = "beforePrune"
              /\ log[p - 1].name = log[p].name /\ log[p - 1].gk = log[p].gk
              /\ log[p - 1].ns = log[p].ns
    /\ retErr = "error from before-prune callback" =>
          /\ pc = "done"
          /\ log[Len(log)].op = "beforePrune"
          /\ Len(Requests("delete")) = Len(results.PrunedObjects)
          /\ Len(results.PrunedObjects) < Len(pruneObjects)
          /\ \A i \in (Len(results.PrunedObjects) + 1)..Len(pruneObjects) :
                CandidateInStore(pruneObjects[i])
    /\ Len(results.PrunedObjects) <= Len(pruneObjects)
    /\ \A i \in 1..Len(results.PrunedObjects) :
          /\ results.PrunedObjects[i].PruneObject = pruneObjects[i]
          /\ Requests("delete")[i].name = pruneObjects[i].Name
          /\ results.PrunedObjects[i].Error # "" =>
                /\ results.PrunedObjects[i].Error \in Range(PruneErrors(results))
                /\ CandidateInStore(pruneObjects[i])
          /\ (results.PrunedObjects[i].Error = "" /\ ~call.dryRun) =>
                ~CandidateInStore(pruneObjects[i])
    /\ PruneLoopEnded => Len(results.PrunedObjects) = Len(pruneObjects)

C15_Witness ==
    /\ pc = "done" /\ ~call.dryRun /\ "beforePrune" \in a.callbacks
    /\ Len(results.PrunedObjects) = 2
    /\ results.PrunedObjects[1].Error # ""
    /\ results.PrunedObjects[2].Error = ""

\* The errors applyAndPrune returns.
FatalErrors ==
    {"unable to update Parent", "error after apply", "error finding objects to prune",
     "error from before-prune callback", "FATAL"}

\* The failed applies and failed deletes of the pass, and its failed Adds.
PerObjectFailures ==
    Cardinality({i \in 1..Len(results.AppliedObjects) :
                    results.AppliedObjects[i].Error # ""})
    + Cardinality({i \in 1..Len(results.PrunedObjects) :
                    results.PrunedObjects[i].Error # ""})

AddFailures ==
    Cardinality({i \in 1..Len(addLog) :
        addLog[i].err \in {"error getting object from cluster", "load callback error"}})

\* C16: the error Apply or DryRun returns is never the error of an apply or
\* of a delete of one object; a call in which only applies and deletes of
\* single objects failed returns nil, and each such failure is among
\* ApplyErrors() or PruneErrors().
C16_PerObjectErrorsNotReturned ==
    /\ retErr # "" => retErr \in FatalErrors
    /\ (pc = "done" /\ passFaults = PerObjectFailures + AddFailures) => retErr = ""
    /\ \A ao \in Range(results.AppliedObjects) :
          ao.Error # "" => /\ ao.Error \notin FatalErrors
                           /\ ao.Error \in Range(ApplyErrors(results))
    /\ \A po \in Range(results.PrunedObjects) :
          po.Error # "" => /\ po.Error \notin FatalErrors
                           /\ po.Error \in Range(PruneErrors(results))

C16_Witness ==
    /\ pc = "done" /\ retErr = "" /\ call.prune
    /\ Len(results.PrunedObjects) = 1
    /\ results.PrunedObjects[1].Error # ""
    /\ PruneErrors(results) # << >>

\* The names the previous pass applied without error, and those whose apply failed.
PrevConverged == {prev.applied[i].name : i \in {k \in DOMAIN prev.applied : prev.applied[k].ok}}

PrevFailed == {prev.applied[i].name : i \in {k \in DOMAIN prev.applied : ~prev.applied[k].ok}}

\* A pass with the desired set and the configuration of the previous pass,
\* which was not a dry run and in which some apply failed.
RetryPass ==
    /\ pc \notin {"idle", "adding"}
    /\ prev.valid /\ ~prev.dryRun /\ PrevFailed # {}
    /\ TrackedNames = prev.desired
    /\ a.toolLabels = prev.toolLabels

\* C17: in a pass that repeats the desired set of a pass in which some apply
\* failed, an object the earlier pass applied and that is applied again
\* without error keeps its resourceVersion (that read by Add, that of the
\* answer and that in the store are the same) and reports no cluster
\* mutation; once the apply loop has ended each object that failed before
\* has been attempted again.
C17_RetryIsIdempotent ==
    RetryPass =>
        /\ \A ao \in Range(results.AppliedObjects) :
              (ao.Error = "" /\ ao.obj.name \in PrevConverged) =>
                  /\ ~AppliedHasClusterMutation(ao)
                  /\ ao.LastApplied.rv = ao.obj.lastReadRevision
                  /\ \A o \in StoreLookup(store, ao.LastApplied.gk, ao.LastApplied.ns,
                                           ao.LastApplied.name) :
                        o.rv = ao.obj.lastReadRevision
        /\ ApplyLoopEnded =>
              \A n \in PrevFailed : \E r \in Range(Requests("apply")) : r.name = n

C17_Witness ==
    /\ RetryPass /\ pc = "done" /\ ~call.dryRun
    /\ PrevConverged # {}
    /\ Len(results.AppliedObjects) = 2
    /\ \A i \in 1..2 : results.AppliedObjects[i].Error = ""

\* The remote identities of the objects callers add with ExternalRef set.
ExternalKeys ==
    {[gk |-> GroupKind(o.gvk), ns |-> o.ns, name |-> o.name] :
        o \in {c \in Candidates : c.ExternalRef}}

\* C18: no delete request is sent for, and no PrunedObject names, a remote
\* object that callers add with ExternalRef set, in the pass that adds it or
\* in a later pass that does not (passes that are not dry runs, in which
\* every Add returned nil and nothing failed).
C18_ExternalRefNeverPruned ==
    (~call.dryRun /\ faults = 0 /\ \A i \in 1..Len(addLog) : addLog[i].err = "") =>
        /\ \A r \in Range(Requests("delete")) :
              [gk |-> r.gk, ns |-> r.ns, name |-> r.name] \notin ExternalKeys
        /\ \A po \in Range(results.PrunedObjects) :
              [gk |-> po.PruneObject.Mapping, ns |-> po.PruneObject.Namespace,
               name |-> po.PruneObject.Name] \notin ExternalKeys

\* C20: HasClusterMutation of an applied object is true only if its apply
\* returned no error and the resourceVersion of the answer differs from the
\* lastReadRevision captured by Add (in a pass that is not a dry run the store
\* then holds the object at the new resourceVersion); HasClusterMutation of
\* the result is true iff it is true of some applied object.
C20_HasClusterMutation ==
    /\ \A ao \in Range(results.AppliedObjects) :
          AppliedHasClusterMutation(ao) =>
              /\ ao.Error = ""
              /\ ao.LastApplied # NilObject
              /\ ao.LastApplied.rv # ao.obj.lastReadRevision
              /\ ~call.dryRun =>
                    \E o \in store : /\ o.uid = ao.LastApplied.uid
                                      /\ o.rv = ao.LastApplied.rv
                                      /\ o.rv # ao.obj.lastReadRevision
    /\ HasClusterMutation(results) <=>
          \E ao \in Range(results.AppliedObjects) :
              ao.Error = "" /\ ao.LastApplied.rv # ao.obj.lastReadRevision

C20_Witness ==
    /\ pc = "done" /\ ~call.dryRun
    /\ Len(results.AppliedObjects) = 2
    /\ ~AppliedHasClusterMutation(results.AppliedObjects[1])
    /\ results.AppliedObjects[1].Error = ""
    /\ AppliedHasClusterMutation(results.AppliedObjects[2])
    /\ HasClusterMutation(results)

\* The set identifiers of the two owners.
OwnID == ID(ParentObject(owner))

PeerID == ID(PeerParentObject(peer.owner))

\* The objects of the store that this step removes.
Removed == {o \in store : StoreLookup(store', o.gk, o.ns, o.name) = {}}

\* C19: with two engines on two owners and disjoint desired sets, in every
\* interleaving, a step of one engine removes no object that carries the
\* membership label of the other owner, and changes neither the labels nor
\* the annotations of the other owner.
C19_OwnersDoNotInterfere ==
    [][/\ peer' = peer =>
            \A o \in Removed : MapGet(o.labels, ApplysetPartOfLabel) # PeerID
       /\ peer' # peer =>
            /\ \A o \in Removed : MapGet(o.labels, ApplysetPartOfLabel) # OwnID
            /\ owner' = owner
       /\ owner' # owner => peer'.owner = peer.owner]_vars

\* --------------------------------------------------------------- C21, C22

\* The engines NewApplySet returned without an error.
Constructed == {e \in engines : e.err = ""}

\* The four fields of an owner the set ID is computed from.
IdentityFields(identity) ==
    <<identity.name, identity.namespace, identity.gvk.kind, identity.gvk.group>>

\* C21: the set ID is a function of the owner's name, namespace, kind and
\* group: engines of owners equal in the four fields compute the same ID,
\* and engines of owners that differ in one of them compute different IDs.
C21_IDIdentifiesOwner ==
    \A e \in Constructed, f \in Constructed :
        (ID(e.aset.parent) = ID(f.aset.parent))
            <=> (IdentityFields(e.identity) = IdentityFields(f.identity))

\* An owner without a name or without a kind.
MissingIdentityField(identity) == identity.name = "" \/ identity.gvk.kind = ""

\* C22: NewApplySet returns an error, and no engine, for an empty field
\* manager, for a missing tooling ID and for an owner that lacks an identity
\* field.
C22_ConstructionValidates ==
    \A e \in engines :
        (\/ e.config.FieldManager = ""
         \/ e.config.ToolingID = [Name |-> "", Version |-> ""]
         \/ MissingIdentityField(e.identity))
            => (e.err # "" /\ e.aset = NoEngine)

\* --------------------------------------------------------------- C23, C24

\* The dependents of Ready, as the instance has them.
DependentConditions == {instance.conditions[Dependents[i]] : i \in 1..Len(Dependents)}

C24_ErrorKeepsConditions ==
    [][(instance'.op = "updateInstanceStatusOnError" /\ instance' # instance) =>
          /\ instance'.state = "ERROR"
          /\ \A t \in DOMAIN instance.conditions :
                /\ t \in DOMAIN instance'.conditions
                /\ instance'.conditions[t].status = instance.conditions[t].status
                /\ instance'.conditions[t].reason = instance.conditions[t].reason]_vars

\* updateInstanceStatusOnError was called on the instance with the failed
\* graph validation and the condition of another controller.
C24_Witness ==
    /\ instance.op = "updateInstanceStatusOnError"
    /\ instance.state = "ERROR"
    /\ "CustomCondition" \in DOMAIN instance.conditions
    /\ instance.conditions["GraphResolved"].status = "False"
    /\ instance.conditions["GraphResolved"].reason = "ValidationError"
    /\ instance.conditions["ResourcesReady"].status = "Unknown"

\* -------------------------------------------------------------------- C25

\* The place of a phase in the order of a pass; pruning starts with the
\* discovery of its candidates.
PhaseRank(p) ==
    CASE p = "idle" -> 0
      [] p = "adding" -> 1
      [] p = "superset" -> 2
      [] p = "applying" -> 3
      [] p = "finding" -> 4
      [] p = "pruning" -> 5
      [] p = "latest" -> 6
      [] OTHER -> 7

\* In the requests l, every delete comes after an apply request for each
\* tracked object, and no apply comes after a delete.
AppliesBeforeDeletes(l, tracked) ==
    \A j \in 1..Len(l) :
        l[j].op = "delete" =>
            /\ Cardinality({i \in 1..(j-1) : l[i].op = "apply"}) = tracked
            /\ \A k \in (j+1)..Len(l) : l[k].op # "apply"

\* r extends the result q: what q recorded is in r, in place.
ExtendsResult(r, q) ==
    /\ r.Desired = q.Desired
    /\ Len(r.AppliedObjects) >= Len(q.AppliedObjects)
    /\ SubSeq(r.AppliedObjects, 1, Len(q.AppliedObjects)) = q.AppliedObjects
    /\ Len(r.PrunedObjects) >= Len(q.PrunedObjects)
    /\ SubSeq(r.PrunedObjects, 1, Len(q.PrunedObjects)) = q.PrunedObjects

\* C25 as stated: an error in any phase, the Add calls included, leads
\* directly to done.
C25_Original ==
    [][/\ (Len(addLog') > Len(addLog) /\ addLog'[Len(addLog')].err # "") => pc' = "done"
       /\ (retErr' # "" /\ pc \in {"superset", "applying", "finding", "pruning",
                                    "latest"}) => pc' = "done"]_vars

\* C25: within a pass the phases are taken in the order Add calls, superset
\* commit, applying, pruning, latest commit, done, none of them entered twice;
\* no delete is requested before an apply was requested for every tracked
\* object and no apply after a delete; a step of Apply or DryRun that ends in
\* an error goes to done at once, with the result recorded so far.  (An Add
\* that returns an error leaves the engine where it was: further Add calls
\* and Apply are accepted.)
C25_PhaseOrder ==
    [][/\ (pc' # pc /\ pc \in {"adding", "superset", "applying", "finding",
                                "pruning", "latest"}) =>
              PhaseRank(pc') > PhaseRank(pc)
       /\ pc' \notin {"idle", "adding"} =>
              AppliesBeforeDeletes(log', Len(a'.desired.objects))
       /\ (retErr' # "" /\ pc \in {"superset", "applying", "finding", "pruning",
                                    "latest"}) =>
              /\ pc' = "done"
              /\ ExtendsResult(results', results)]_vars

\* A pass went through every phase: it patched the owner to the superset,
\* applied two objects, deleted one and patched the owner to the latest set.
C25_Witness ==
    /\ pc = "done" /\ retErr = ""
    /\ Len(a.desired.objects) = 2
    /\ \E i, j, k, m \in 1..Len(log) :
         /\ i < j /\ j < k /\ k < m
         /\ log[i].op = "patchParent" /\ log[i].arg = "superset"
         /\ log[j].op = "apply"
         /\ log[k].op = "delete"
         /\ log[m].op = "patchParent" /\ log[m].arg = "latest"

\* -------------------------------------------------------------------- C26

\* The errors of tracker.Add.
TrackerErrors == {"duplicate object", "duplicate object ID", "not json marshallable"}

\* An Add call was made in this step.
AddStep == Len(addLog') = Len(addLog) + 1

\* C26: an Add that fails with the duplicate-object, the duplicate-ID or the
\* not-marshallable error has sent no request to the remote store.
C26_RejectBeforeIO ==
    [][(AddStep /\ LastAdd'.err \in TrackerErrors) => log' = log]_vars

\* -------------------------------------------------------------------- C27

\* The remote objects with the identity of the object of an Add call.
ObservedBy(e) == StoreLookup(store, e.gk, e.ns, e.name)

\* C27: an Add that returns nil tracks the object with the resourceVersion
\* of the stored object as lastReadRevision, and with none when the store has
\* no such object; that the store has none is no error; an Add whose read
\* fails for another reason returns the error and tracks nothing.
C27_AddReadsRevision ==
    [][AddStep =>
        LET e == LastAdd'
            n == Len(a'.desired.objects)
        IN /\ e.err = "" =>
                /\ n = Len(a.desired.objects) + 1
                /\ a'.desired.objects[n].name = e.name
                /\ a'.desired.objects[n].lastReadRevision =
                      IF ObservedBy(e) = {} THEN 0
                      ELSE (CHOOSE o \in ObservedBy(e) : TRUE).rv
           /\ (/\ ObservedBy(e) = {} /\ faults' = faults
               /\ AddKey(e) \notin a.desired.serverIDs
               /\ e.ID \notin a.desired.clientIDs) => e.err = ""
           /\ e.err = "error getting object from cluster" => a'.desired = a.desired]_vars

\* An Add returned nil for an object the store holds: the tracked object has
\* the resourceVersion of the stored one.
C27_Witness ==
    /\ pc = "adding" /\ addLog # << >> /\ LastAdd.err = ""
    /\ ObservedBy(LastAdd) # {}
    /\ LET n == Len(a.desired.objects)
       IN /\ n > 0
          /\ a.desired.objects[n].name = LastAdd.name
          /\ a.desired.objects[n].lastReadRevision > 0
          /\ \E o \in ObservedBy(LastAdd) : o.rv = a.desired.objects[n].lastReadRevision

\* -------------------------------------------------------------------- C28

\* C28: an Add of an object whose kind the REST mapper does not know fails
\* with the mapping error; the object is not tracked, no request is sent,
\* and the kind is not in the scope the engine would write to the owner.
C28_MappingNotFound ==
    [][(AddStep /\ LastAdd'.gk = GroupKind(ObjUnknown.gvk)) =>
          /\ LastAdd'.err = "rest mapping not found"
          /\ a'.desired = a.desired
          /\ log' = log
          /\ LastAdd'.gk \notin DOMAIN a'.desiredRestMappings
          /\ \A mode \in {"superset", "latest"} : ParentPatch(a', mode) = ParentPatch(a, mode)]_vars

\* An object of an unknown kind was handed to an engine that tracks another
\* object, and was refused.
C28_Witness ==
    /\ addLog # << >>
    /\ LastAdd.gk = GroupKind(ObjUnknown.gvk)
    /\ LastAdd.err = "rest mapping not found"
    /\ Len(a.desired.objects) > 0

\* -------------------------------------------------------------------- C29

\* The labels carry the membership label of the engine and its tool labels.
CarriesSetLabels(labels) ==
    /\ ApplysetPartOfLabel \in DOMAIN labels
    /\ labels[ApplysetPartOfLabel] = ID(a.parent)
    /\ \A k \in DOMAIN a.toolLabels : k \in DOMAIN labels /\ labels[k] = a.toolLabels[k]

\* The children the pass has written: applied without error, not in dry-run.
WrittenChildren ==
    IF call.dryRun THEN {}
    ELSE UNION { StoreLookup(store, GroupKind(results.AppliedObjects[i].obj.gvk),
                             results.AppliedObjects[i].obj.ns,
                             results.AppliedObjects[i].obj.name) :
                 i \in {j \in 1..Len(results.AppliedObjects) :
                           results.AppliedObjects[j].Error = ""} }

\* C29: every tracked object and every child the engine has written carries
\* the membership label with the set ID and every tool label of the
\* configuration, whatever labels the object came with.
C29_LabelsInjected ==
    /\ \A i \in 1..Len(a.desired.objects) : CarriesSetLabels(a.desired.objects[i].labels)
    /\ \A o \in WrittenChildren : CarriesSetLabels(o.labels)

\* The object that came with a label under the key of a tool label and one
\* under the membership key was written: the stored child has the tool's
\* value, the set ID, and its own label under the third key.
C29_Witness ==
    /\ a.toolLabels # NilMap
    /\ \E o \in WrittenChildren :
         /\ o.name = ObjLabelled.name
         /\ o.labels["tool"] = a.toolLabels["tool"]
         /\ o.labels["tool"] # ObjLabelled.labels["tool"]
         /\ o.labels[ApplysetPartOfLabel] = ID(a.parent)
         /\ o.labels["app"] = ObjLabelled.labels["app"]

\* -------------------------------------------------------------------- C30

\* C30: in a dry run every apply and every delete request carries the
\* dry-run flag, and no step of it changes the remote objects: which there
\* are, their bodies, their labels and their resourceVersions.
C30_DryRunChangesNothing ==
    [][(call.dryRun /\ pc \in {"applying", "finding", "pruning"}) =>
          /\ store' = store
          /\ nextUID' = nextUID /\ nextRev' = nextRev
          /\ \A k \in (Len(log) + 1)..Len(log') :
                log'[k].op \in {"apply", "delete"} => log'[k].arg = "dryRun"]_vars

\* A dry run with prune has returned: it sent an apply and a delete request,
\* both flagged, and the object it would have deleted is still stored.
C30_Witness ==
    /\ call.dryRun /\ call.prune /\ pc = "done" /\ retErr = ""
    /\ \E i \in 1..Len(log) : log[i].op = "apply" /\ log[i].arg = "dryRun"
    /\ \E j \in 1..Len(log) :
         /\ log[j].op = "delete" /\ log[j].arg = "dryRun"
         /\ StoreLookup(store, log[j].gk, log[j].ns, log[j].name) # {}
    /\ \A i \in 1..Len(results.PrunedObjects) : results.PrunedObjects[i].Error = ""

\* -------------------------------------------------------------------- C31

\* The call returned because the superset update of the parent failed.
SupersetFailed ==
    /\ pc = "done" /\ retErr = "unable to update Parent"
    /\ log # << >>
    /\ log[Len(log)].op = "patchParent" /\ log[Len(log)].arg = "superset"

\* C31: when the superset update of the parent fails the call returns an
\* error at once: no apply and no delete request was sent, and the result has
\* the number of tracked objects as Desired and records nothing else.
C31_SupersetFailureEndsPass ==
    SupersetFailed =>
        /\ retErr # ""
        /\ Requests("apply") = << >> /\ Requests("delete") = << >>
        /\ results = [Desired |-> Len(a.desired.objects), AppliedObjects |-> << >>,
                      PrunedObjects |-> << >>]

\* The superset update failed in a pass with prune that tracks an object.
C31_Witness ==
    /\ SupersetFailed /\ call.prune
    /\ Len(a.desired.objects) > 0

\* -------------------------------------------------------------------- C32

\* A request to update the parent was sent in this step.
CommitStep ==
    /\ Len(log') = Len(log) + 1
    /\ log'[Len(log')].op = "patchParent"

\* The entries of m under keys that are not the engine's.
ForeignEntries(m) == [k \in DOMAIN m \ EngineKeys |-> m[k]]

PropPath(n) == "spec" \o ".properties." \o n

\* C33: a property only the new schema has is reported as a breaking change
\* exactly when the new schema requires it and gives it no default value,
\* and as a non-breaking change otherwise; a property only the old schema
\* has is reported as a breaking change.
C33_PropertyChanges ==
    compat.made =>
        LET old == DOMAIN compat.oldSchema.Properties
            new == DOMAIN compat.newSchema.Properties
            breaking == compat.result.BreakingChanges
            nonBreaking == compat.result.NonBreakingChanges
        IN /\ \A n \in new \ old :
                LET requiredNoDefault ==
                        /\ n \in compat.newSchema.Required
                        /\ compat.newSchema.Properties[n].Default # "value"
                IN /\ (Change(PropPath(n), PropertyAdded) \in breaking) <=> requiredNoDefault
                   /\ (Change(PropPath(n), PropertyAdded) \in nonBreaking) <=> ~requiredNoDefault
           /\ \A n \in old \ new :
                /\ Change(PropPath(n), PropertyRemoved) \in breaking
                /\ \A c \in nonBreaking : c.Path # PropPath(n)

\* The new schema lacks p and has q, required, with a default without bytes:
\* both are reported as breaking.
C33_Witness ==
    /\ compat.made
    /\ DOMAIN compat.oldSchema.Properties = {"p"}
    /\ DOMAIN compat.newSchema.Properties = {"q"}
    /\ "q" \in compat.newSchema.Required
    /\ compat.newSchema.Properties["q"].Default = "empty"
    /\ compat.result.BreakingChanges =
          {Change(PropPath("p"), PropertyRemoved), Change(PropPath("q"), PropertyAdded)}

\* -------------------------------------------------------------------- C34

\* C34: no delete request of a pass, dry runs left aside, names the kind,
\* namespace and name of an object the pass tracks.
C34_PruneSparesTracked ==
    \A j \in 1..Len(log) :
        (log[j].op = "delete" /\ log[j].arg # "dryRun") =>
            \A i \in 1..Len(a.desired.objects) :
                ~(/\ GroupKind(a.desired.objects[i].gvk) = log[j].gk
                  /\ a.desired.objects[i].ns = log[j].ns
                  /\ a.desired.objects[i].name = log[j].name)

\* -------------------------------------------------------------------- C35

\* C35: the remote identities the tracker holds as taken are those of the
\* objects in its list, and the caller IDs it holds as taken are the IDs of
\* the objects in its list.
C35_TrackerIndexes ==
    /\ a.desired.serverIDs = TrackedKeys(a.desired)
    /\ a.desired.clientIDs = TrackedIDs(a.desired)

\* -------------------------------------------------------------------- C36

\* The Add calls of the pass that returned nil.
SuccessfulAdds == {i \in 1..Len(addLog) : addLog[i].err = ""}

\* C36: once Apply or DryRun is called, Desired counts the objects whose Add
\* returned nil, and every apply request is for one of them.
C36_FailedAddNotInPass ==
    (pc \in {"superset", "applying", "finding", "pruning", "latest", "done"}) =>
        /\ results.Desired = Cardinality(SuccessfulAdds)
        /\ \A j \in 1..Len(log) :
              log[j].op = "apply" =>
                  \E i \in SuccessfulAdds :
                      /\ addLog[i].gk = log[j].gk
                      /\ addLog[i].name = log[j].name

\* -------------------------------------------------------------------- C37

\* C37: the namespace a namespaced object was applied in by a pass that is
\* no dry run is an element of the namespace annotation of the owner.
C37_AppliedNamespaceInScope ==
    ~call.dryRun =>
        \A i \in 1..Len(results.AppliedObjects) :
            LET obj == results.AppliedObjects[i].obj
            IN (/\ results.AppliedObjects[i].Error = ""
                /\ RESTMapping(GroupKind(obj.gvk)) = "namespace") =>
                   ResourceClient(a, obj).ns \in Tokens(OwnerNamespaces)

\* -------------------------------------------------------------------- C38

\* C38: with an after-apply callback configured, every object the pass
\* attempted, failed applies included, is handed to the callback once, in
\* apply order, right after its apply request, with the error recorded for
\* it and, for a failed apply, no post-apply object; no callback runs without
\* its apply request, and after a callback error nothing more is applied.
C38_CallbackPerAttempt ==
    "afterApply" \in a.callbacks =>
        /\ Len(Requests("afterApply")) = Len(results.AppliedObjects)
        /\ Len(Requests("apply")) = Len(results.AppliedObjects)
        /\ \A i \in 1..Len(results.AppliedObjects) :
              /\ CallbackFollowsApply(i)
              /\ results.AppliedObjects[i].Error # "" =>
                     results.AppliedObjects[i].LastApplied = NilObject
        /\ \A p \in Positions("afterApply") :
              p - 1 \in Positions("apply")
        /\ retErr = "error after apply" =>
              log[Len(log)].op = "afterApply"

C38_Witness ==
    /\ "afterApply" \in a.callbacks
    /\ Len(results.AppliedObjects) = 2
    /\ results.AppliedObjects[1].Error # ""
    /\ results.AppliedObjects[2].Error = ""
    /\ Len(Requests("afterApply")) = 2
    /\ Requests("afterApply")[1].arg # ""

\* -------------------------------------------------------------------- C39

\* The elements of a comma-separated annotation value; the empty value is
\* the empty list.
Elements(value) == IF value = EmptyString THEN {} ELSE Tokens(value)

\* C39: neither the group-kind annotation nor the namespace annotation of
\* the stored owner has an empty string among its elements.
C39_NoEmptyElement ==
    /\ "" \notin Elements(OwnerGKs)
    /\ "" \notin Elements(OwnerNamespaces)

\* -------------------------------------------------------------------- C40

\* C40: in and after a pass the applied list of the result is a prefix of the
\* outcomes of the tracked objects: it has at most Desired entries and its
\* i-th entry is about the i-th tracked object; when the pass has returned
\* with fewer entries than Desired, ApplyErrors is not nil.
C40_ResultIsPrefix ==
    (pc \in {"superset", "applying", "finding", "pruning", "latest", "done", "crashed"}) =>
        /\ results.Desired = Len(a.desired.objects)
        /\ Len(results.AppliedObjects) <= results.Desired
        /\ \A i \in 1..Len(results.AppliedObjects) :
              results.AppliedObjects[i].obj = a.desired.objects[i]
        /\ (pc = "done" /\ Len(results.AppliedObjects) < results.Desired) =>
              ApplyErrors(results) # << >>

C40_Witness ==
    /\ pc = "done"
    /\ results.Desired = 2
    /\ Len(results.AppliedObjects) = 1
    /\ results.AppliedObjects[1].obj = a.desired.objects[1]
    /\ results.AppliedObjects[1].Error = ""
    /\ ApplyErrors(results) = <<"expected applied objects mismatch">>

====
